---- MODULE Spec2Model ----
(***************************************************************************)
(* Content ingestion and retrieval engine of AutoReplyChat-api: the        *)
(* documents / embeddings tables, the content routes working on them, the  *)
(* bot delete route, the retriever, the embeddings backfill and the        *)
(* website crawler.                                                        *)
(***************************************************************************)
EXTENDS Integers, Sequences, FiniteSets, TLC

(***************************************************************************)
(* Bounds of the model.                                                    *)
(***************************************************************************)
MaxDocs == 2

\* The documents that retrain runs store again.
MaxRestores == 2

\* SQL NULL of an integer column, and an absent request field.
NULL == 0

\* Two tenants, A = 1 and B = 2.
Customers == {1, 2}

\* Requests in flight at one time: one that stores (upload, scrape, retrain)
\* and one that reads or deletes (list, delete, bulk delete, bot delete).
StoreSlots == {1}
DeleteSlots == {2}
Slots == StoreSlots \cup DeleteSlots

\* The bots table at start: customer 1 owns bots 1 and 2, customer 2 owns bot 3.
InitialBots == { [id |-> 1, customer_id |-> 1],
                 [id |-> 2, customer_id |-> 1],
                 [id |-> 3, customer_id |-> 2] }

\* The chat sessions of the table, and the transcripts of one session that
\* the mail provider is handed at most.
MaxSessions == 2
MaxSends == 2

SessionIds == 1..MaxSessions

\* Nothing has been handed to the mail provider.
NoMail == [ x \in SessionIds |-> 0 ]

\* bcrypt: the stored hash of a password.
Hash(password) == << "bcrypt", password >>

\* The customers_auth table at start: one account, never failed, not locked.
\* lock_set is not a column: it keeps the locked_until that a failed login
\* has set last (history).
InitialAuth == { [ id |-> 1, customer_id |-> 1, email |-> "a", password_hash |-> Hash("p"),
                   failed_login_attempts |-> 0, locked_until |-> NULL,
                   lock_set |-> NULL ] }

\* The pages of the site.
NumPages == 3

Pages == 1..NumPages

\* A URL as written in a link or a request: origin, path, trailing slash, fragment.
SiteUrls == [ host : {"site"}, path : Pages, slash : BOOLEAN, frag : BOOLEAN ]
OffSiteUrl == [ host |-> "other", path |-> 1, slash |-> FALSE, frag |-> FALSE ]
RawUrls == SiteUrls \cup {OffSiteUrl}

\* No url in the request, no source_url in the row.
NoUrl == [ host |-> "", path |-> 0, slash |-> FALSE, frag |-> FALSE ]

\* The page the single-page requests scrape.
Urls == { [ host |-> "site", path |-> 1, slash |-> FALSE, frag |-> FALSE ] }

(***************************************************************************)
(* Texts are sequences of characters; "\n" is the newline.                 *)
(***************************************************************************)
Contents == { <<>>, <<"a", "b">>, <<"b", "\n", "a">> }

CHUNK_SIZE == 2
CHUNK_OVERLAP == 1

IsBlank(c) == c \in {" ", "\n"}

\* Each window starts one character after the end of the one before it.
RECURSIVE WindowsWithGaps(_, _)
WindowsWithGaps(text, from) ==
  IF from + CHUNK_SIZE - 1 >= Len(text)
    THEN << SubSeq(text, from, Len(text)) >>
    ELSE << SubSeq(text, from, from + CHUNK_SIZE - 1) >>
         \o WindowsWithGaps(text, from + CHUNK_SIZE + 1)

\* Chunk Splitter: fixed-size windows, consecutive windows overlapping by
\* CHUNK_OVERLAP; blank input gives no chunk.
RECURSIVE Windows(_, _)
Windows(text, from) ==
  IF from + CHUNK_SIZE - 1 >= Len(text)
    THEN << SubSeq(text, from, Len(text)) >>
    ELSE << SubSeq(text, from, from + CHUNK_SIZE - 1) >>
         \o Windows(text, from + CHUNK_SIZE - CHUNK_OVERLAP)

ChunkSplitter(text) ==
  IF \A i \in 1..Len(text) : IsBlank(text[i]) THEN <<>> ELSE Windows(text, 1)

(***************************************************************************)
(* Embedding provider.  A vector is a pair of naturals; <<>> is the NULL   *)
(* of the embedding column.  The provider is a function of its input text. *)
(***************************************************************************)
NoVector == <<>>

Weight(c) == IF c = "a" THEN <<2, 1>> ELSE IF c = "b" THEN <<1, 2>> ELSE <<1, 1>>

RECURSIVE Embed(_)
Embed(text) ==
  IF text = <<>> THEN <<0, 0>>
  ELSE LET r == Embed(Tail(text)) w == Weight(Head(text))
       IN  << w[1] + r[1], w[2] + r[2] >>

\* chunk_text.replace(/\n+/g, ' ').trim()
RECURSIVE ReplaceNewlines(_)
ReplaceNewlines(text) ==
  IF text = <<>> THEN <<>>
  ELSE IF Head(text) = "\n"
    THEN IF Len(text) > 1 /\ text[2] = "\n"
           THEN ReplaceNewlines(Tail(text))
           ELSE << " " >> \o ReplaceNewlines(Tail(text))
    ELSE << Head(text) >> \o ReplaceNewlines(Tail(text))

RECURSIVE TrimLeft(_)
TrimLeft(text) ==
  IF text # <<>> /\ IsBlank(Head(text)) THEN TrimLeft(Tail(text)) ELSE text

RECURSIVE TrimRight(_)
TrimRight(text) ==
  IF text # <<>> /\ IsBlank(text[Len(text)])
    THEN TrimRight(SubSeq(text, 1, Len(text) - 1)) ELSE text

Trim(text) == TrimRight(TrimLeft(text))

NormalizeChunkText(text) == Trim(ReplaceNewlines(text))

(***************************************************************************)
(* State.                                                                  *)
(***************************************************************************)
VARIABLES
  documents,     \* rows of the documents table
  embeddings,    \* rows of the embeddings table (the chunks)
  bots,          \* rows of the bots table
  nextDocId,     \* documents.id SERIAL
  nextEmbId,     \* embeddings.id SERIAL
  req,           \* the requests in flight, one per slot
  retrieved,     \* the last retrieveContext call: its scope, the rows it returned
                 \* or that it failed, and the parity of the calls made so far
  deletedDocs,   \* history: ids of documents whose delete request answered success
  chat_sessions, \* rows of the chat_sessions table, joined with their bot's settings
  outbox,        \* the transcripts handed to the mail provider, counted per session
  customers_auth,\* rows of the customers_auth table
  now            \* the clock, in lock periods

vars == << documents, embeddings, bots, nextDocId, nextEmbId, req, retrieved,
           deletedDocs, chat_sessions, outbox, customers_auth, now >>

DocIds == { d.id : d \in documents }
ChunksOf(docId) == { e \in embeddings : e.document_id = docId }
ChunkIdsOf(docIds) == { e.id : e \in { x \in embeddings : x.document_id \in docIds } }

Idle == [ kind |-> "idle", pc |-> "idle", auth |-> NULL, customerId |-> NULL,
          botId |-> NULL, contentType |-> "", url |-> NoUrl, content |-> <<>>,
          ids |-> {}, todo |-> <<>>, docId |-> NULL, pending |-> <<>>,
          snap |-> {}, seen |-> {}, status |-> NULL,
          batch |-> <<>>, response |-> <<>>, i |-> 0,
          total |-> 0, processed |-> 0, errors |-> 0, success |-> FALSE,
          streak |-> 0, files |-> <<>>, results |-> <<>>, chunks |-> <<>>,
          queue |-> <<>>, visited |-> {}, links |-> {}, fetched |-> 0, maxPages |-> 0,
          fetchLog |-> <<>>, calls |-> <<>>, failed |-> {}, successCount |-> 0,
          email |-> "", password |-> "", user |-> NULL, session |-> NULL ]

\* Fields of a request: kind and pc (the handler and its position), auth
\* (req.customerId, the tenant of the session), customerId / botId / url / content
\* (the inputs), ids (the documents a delete targets), todo (websiteDocs still to
\* retrain), docId / pending (storeDocument's row and the chunks still to insert),
\* snap (the chunk ids the targeted documents had when the delete began),
\* seen (the tenants of the rows a list returned), status (the HTTP answer),
\* batch / response / i (the backfill's selected rows, the vectors returned for
\* them and the index of its write loop), total / processed / errors / success
\* (the backfill's counters and the success flag of its report), queue / visited /
\* links / fetched / maxPages (the crawl's FIFO queue, its visited set, the links
\* read from the last stored page, the pages fetched so far and the cap), fetchLog / calls
\* (the URLs the crawl has fetched and those it has handed to onPage, in order),
\* failed (the URLs whose fetch failed), streak (the batch failures other than
\* rate limits that the backfill met since its last successful batch), files /
\* results (req.files of an upload and the results array of its handler; i is
\* then the index of the file the loop is at), chunks (what the Chunk Splitter
\* returned for content), successCount (the documents a retrain run has
\* re-stored so far; total is then websiteDocs.length), email / password (the
\* body of a login request), user (the customers_auth row the login read),
\* session (req.session.customerId once the login has created the session).

Init ==
  /\ documents = {}
  /\ embeddings = {}
  /\ bots = InitialBots
  /\ nextDocId = 1
  /\ nextEmbId = 1
  /\ req = [ s \in Slots |-> Idle ]
  /\ retrieved = [ customerId |-> NULL, botId |-> NULL, query |-> <<>>, rows |-> <<>>,
                   error |-> FALSE, n |-> 0 ]
  /\ deletedDocs = {}
  /\ chat_sessions = {}
  /\ outbox = NoMail
  /\ customers_auth = InitialAuth
  /\ now = 0


(***************************************************************************)
(* The database: what the schema enforces on every statement.              *)
(***************************************************************************)
\* The embeddings table declared without its foreign key: nothing cascades.
NoCascade(embs, ids) == embs

\* document_id INTEGER REFERENCES documents(id) ON DELETE CASCADE:
\* the chunks of a deleted document row are deleted with it.
OnDeleteCascade(embs, ids) == { e \in embs : e.document_id \notin ids }

\* An insert that is not checked against the documents table.
FkNotChecked(docId) == TRUE

\* document_id INTEGER REFERENCES documents(id): a chunk row is accepted
\* only while the document row it names exists.
FkDocumentExists(docId) == docId \in DocIds

\* DELETE FROM documents WHERE id = ANY(ids)
DeleteFromDocuments(ids) ==
  /\ documents' = { d \in documents : d.id \notin ids }
  /\ embeddings' = OnDeleteCascade(embeddings, ids \cap DocIds)

\* DELETE FROM embeddings WHERE document_id = ANY(ids)
DeleteFromEmbeddings(ids) ==
  embeddings' = { e \in embeddings : e.document_id \notin ids }

(***************************************************************************)
(* Embedding Client: one vector per input text, in input order.            *)
(***************************************************************************)
EmbeddingClient(texts) ==
  [ i \in 1..Len(texts) |-> Embed(NormalizeChunkText(texts[i])) ]

NoVectors(texts) == [ i \in 1..Len(texts) |-> NoVector ]

(***************************************************************************)
(* Requests.                                                               *)
(***************************************************************************)
SetReq(s, r) == req' = [ req EXCEPT ![s] = r ]

\* res.json / res.status(code).json: the handler has answered.  What is kept of
\* the request is what it was authenticated as, the rows it was shown, the
\* document it stored and, after a failure, the documents it was deleting.
Respond(r, code) ==
  [ Idle EXCEPT !.kind = r.kind, !.pc = "done", !.status = code, !.auth = r.auth,
                !.docId = r.docId, !.seen = r.seen,
                !.ids = IF code = 500 THEN r.ids ELSE {},
                !.snap = IF code = 500 THEN r.snap ELSE {} ]

\* The next document of a retrain run, or the end of the run.
RetrainNext(r) ==
  IF Len(r.todo) > 1
    THEN [ r EXCEPT !.pc = "retrain_scrape", !.todo = Tail(r.todo),
                    !.pending = <<>>, !.docId = NULL ]
    ELSE [ Respond([ r EXCEPT !.docId = NULL ], r.status) EXCEPT
             !.successCount = r.successCount, !.total = r.total ]

\* The error ends the background loop: the catch encloses the for statement.
RetrainCatchOutsideLoop(r) == Respond([ r EXCEPT !.docId = NULL ], r.status)

\* catch (error) inside the for body: the failure is logged and the loop goes
\* on with the next document
RetrainCatch(r) == RetrainNext(r)

\* successCount++, then the loop waits for its 500 ms timer
RetrainStored(r) ==
  [ r EXCEPT !.pc = "retrain_delay", !.successCount = r.successCount + 1 ]

\* The task answers the request again when the crawl is over.
CrawlEndedAnswers(r) ==
  [ r EXCEPT !.pc = "done", !.status = 500, !.docId = NULL, !.pending = <<>>,
             !.content = <<>>, !.links = {}, !.url = NoUrl ]

\* The detached crawl task is over: crawlWebsite has returned, or its error has
\* reached the task's catch block.
CrawlEnded(r) ==
  [ r EXCEPT !.pc = "done", !.docId = NULL, !.pending = <<>>, !.content = <<>>,
             !.links = {}, !.url = NoUrl ]

\* onPage has stored the page and returns to the crawler.
OnPageReturn(r) ==
  [ r EXCEPT !.pc = "crawl_links", !.docId = NULL, !.pending = <<>>, !.content = <<>> ]

\* The error of storeDocument leaves onPage and ends the crawl.
OnPagePropagate(r) == CrawlEnded(r)

\* catch (storeError) inside onPage: the error is logged, onPage returns.
OnPageCatch(r) == OnPageReturn(r)

\* The next file of an upload, or res.json({success: true, message, results})
UploadNext(r, results) ==
  IF r.i < Len(r.files)
    THEN [ r EXCEPT !.pc = "upload_extract", !.i = r.i + 1, !.results = results,
                    !.docId = NULL, !.pending = <<>>, !.content = <<>> ]
    ELSE [ Respond([ r EXCEPT !.docId = NULL ], 200) EXCEPT
             !.files = r.files, !.results = results, !.success = TRUE ]

\* results.push({filename, success: true, chunksStored}); cleanupFile
UploadStored(r) ==
  UploadNext(r, Append(r.results,
                       [ filename |-> r.files[r.i].originalname, success |-> TRUE,
                         chunksStored |-> Len(ChunkSplitter(r.content)) ]))

\* The error of one file reaches the handler's outer catch: res.status(500).
UploadCatchOutsideLoop(r) == Respond([ r EXCEPT !.docId = NULL ], 500)

\* catch (error) inside the for body: cleanupFile;
\* results.push({filename, success: false, error})
UploadCatch(r) ==
  UploadNext(r, Append(r.results,
                       [ filename |-> r.files[r.i].originalname, success |-> FALSE,
                         error |-> "error" ]))

\* storeDocument returned {chunksStored} to its caller.
StoreReturn(r) ==
  IF r.kind = "retrain" THEN RetrainStored(r)
  ELSE IF r.kind = "upload" THEN UploadStored(r)
  ELSE IF r.kind = "crawl" THEN OnPageReturn(r)
  ELSE Respond(r, 200)

\* storeDocument threw: the caller's catch block.
StoreThrow(r) ==
  IF r.kind = "retrain" THEN RetrainCatch(r)
  ELSE IF r.kind = "upload" THEN UploadCatch(r)
  ELSE IF r.kind = "crawl" THEN OnPageCatch(r)
  ELSE Respond(r, 500)

\* The largest id the documents sequence hands out to a request: MaxDocs to
\* the requests that add a document, MaxRestores more to a retrain run, which
\* stores again what it has deleted.
DocIdCap(r) == IF r.kind = "retrain" THEN MaxDocs + MaxRestores ELSE MaxDocs

(***************************************************************************)
(* Knowledge Store write path: storeDocument.                              *)
(***************************************************************************)
\* Persist the document row, split the text and embed the chunks.  When the
\* embedding call fails the chunks are kept without vectors; when the INSERT
\* fails storeDocument throws.
StoreInsertDocument(s, embedded) ==
  LET r == req[s] IN
  /\ r.pc = "insert_document"
  /\ IF r.customerId = NULL \/ r.content = <<>>
       THEN /\ SetReq(s, StoreThrow(r))
            /\ UNCHANGED << documents, embeddings, bots, nextDocId, nextEmbId,
                            retrieved, deletedDocs, chat_sessions, outbox, customers_auth, now >>
       ELSE \/ /\ nextDocId <= DocIdCap(r)
               /\ documents' = documents \cup
                    { [ id |-> nextDocId, customer_id |-> r.customerId, bot_id |-> r.botId,
                        content_type |-> r.contentType, source_url |-> r.url ] }
               /\ nextDocId' = nextDocId + 1
               /\ LET texts == ChunkSplitter(r.content)
                        vecs  == IF embedded THEN EmbeddingClient(texts) ELSE NoVectors(texts)
                    IN SetReq(s, [ r EXCEPT !.pc = "insert_chunks", !.docId = nextDocId,
                           !.pending = [ i \in 1..Len(texts) |->
                                           [ text |-> texts[i], vec |-> vecs[i] ] ] ])
               /\ UNCHANGED << embeddings, bots, nextEmbId, retrieved, deletedDocs,
                               chat_sessions, outbox, customers_auth, now >>
            \/ /\ SetReq(s, StoreThrow(r))
               /\ UNCHANGED << documents, embeddings, bots, nextDocId, nextEmbId,
                               retrieved, deletedDocs, chat_sessions, outbox, customers_auth, now >>

\* Persist the next chunk with its vector and its tenant / document linkage.
StoreInsertChunk(s) ==
  LET r == req[s] IN
  /\ r.pc = "insert_chunks"
  /\ r.pending # <<>>
  /\ IF FkDocumentExists(r.docId)
       THEN /\ embeddings' = embeddings \cup
                 { [ id |-> nextEmbId, customer_id |-> r.customerId, bot_id |-> r.botId,
                     document_id |-> r.docId, chunk_text |-> Head(r.pending).text,
                     embedding |-> Head(r.pending).vec ] }
            /\ nextEmbId' = nextEmbId + 1
            /\ SetReq(s, [ r EXCEPT !.pending = Tail(r.pending) ])
       ELSE /\ SetReq(s, StoreThrow(r))
            /\ UNCHANGED << embeddings, nextEmbId >>
  /\ UNCHANGED << documents, bots, nextDocId, retrieved, deletedDocs,
                  chat_sessions, outbox, customers_auth, now >>

StoreDone(s) ==
  LET r == req[s] IN
  /\ r.pc = "insert_chunks"
  /\ r.pending = <<>>
  /\ SetReq(s, StoreReturn(r))
  /\ UNCHANGED << documents, embeddings, bots, nextDocId, nextEmbId, retrieved, deletedDocs,
                  chat_sessions, outbox, customers_auth, now >>

(***************************************************************************)
(* Content routes: ingestion.                                              *)
(***************************************************************************)
\* POST /api/content/text
PostTextUnchecked(s, auth, customerId, botId, content) ==
  /\ req[s].kind = "idle"
  /\ SetReq(s, [ Idle EXCEPT !.kind = "text", !.pc = "insert_document",
                   !.auth = auth, !.customerId = customerId, !.botId = botId,
                   !.contentType = "text", !.content = content ])
  /\ UNCHANGED << documents, embeddings, bots, nextDocId, nextEmbId, retrieved, deletedDocs,
                  chat_sessions, outbox, customers_auth, now >>

PostText(s, auth, customerId, botId, content) ==
  /\ req[s].kind = "idle"
  /\ IF customerId = NULL \/ content = <<>>
       THEN SetReq(s, Respond([ Idle EXCEPT !.kind = "text", !.auth = auth,
                                  !.customerId = customerId ], 400))
       ELSE SetReq(s, [ Idle EXCEPT !.kind = "text", !.pc = "insert_document",
                          !.auth = auth, !.customerId = customerId, !.botId = botId,
                          !.contentType = "text", !.content = content ])
  /\ UNCHANGED << documents, embeddings, bots, nextDocId, nextEmbId, retrieved, deletedDocs,
                  chat_sessions, outbox, customers_auth, now >>

\* The files one upload may carry (upload.array('files', 10), scaled).
MaxFiles == 2

UploadedFiles == { [ originalname |-> "f1", mimetype |-> "application/pdf" ],
                   [ originalname |-> "f2", mimetype |-> "text/plain" ] }

\* file.mimetype.includes('pdf') ? 'pdf' : ... : 'text'
ContentTypeOf(mimetype) ==
  CASE mimetype = "application/pdf" -> "pdf"
    [] mimetype = "application/msword" -> "docx"
    [] mimetype = "text/csv" -> "csv"
    [] mimetype = "application/vnd.openxmlformats-officedocument.spreadsheetml.sheet" -> "excel"
    [] OTHER -> "text"

\* sourceUrl: file.originalname
FileUrl(originalname) ==
  [ host |-> originalname, path |-> 0, slash |-> FALSE, frag |-> FALSE ]

\* POST /api/content/upload: the validation
PostUpload(s, auth, customerId, botId, files) ==
  /\ req[s].kind = "idle"
  /\ IF customerId = NULL \/ files = <<>>
       THEN SetReq(s, Respond([ Idle EXCEPT !.kind = "upload", !.auth = auth ], 400))
       ELSE SetReq(s, [ Idle EXCEPT !.kind = "upload", !.pc = "upload_extract",
                          !.auth = auth, !.customerId = customerId, !.botId = botId,
                          !.files = files, !.i = 1 ])
  /\ UNCHANGED << documents, embeddings, bots, nextDocId, nextEmbId, retrieved, deletedDocs,
                  chat_sessions, outbox, customers_auth, now >>

\* extractTextFromFile(file.path, file.mimetype): the text of the file, or a
\* throw; then the call of storeDocument
UploadExtract(s, content) ==
  LET r == req[s] file == r.files[r.i] IN
  /\ r.kind = "upload"
  /\ r.pc = "upload_extract"
  /\ \/ SetReq(s, [ r EXCEPT !.pc = "insert_document", !.content = content,
                             !.contentType = ContentTypeOf(file.mimetype),
                             !.url = FileUrl(file.originalname) ])
     \/ SetReq(s, UploadCatch(r))
  /\ UNCHANGED << documents, embeddings, bots, nextDocId, nextEmbId, retrieved, deletedDocs,
                  chat_sessions, outbox, customers_auth, now >>

\* POST /api/content/scrape-website, single page: the validation
PostScrapeWebsite(s, auth, customerId, botId, url) ==
  /\ req[s].kind = "idle"
  /\ IF customerId = NULL \/ url = NoUrl
       THEN SetReq(s, Respond([ Idle EXCEPT !.kind = "scrape", !.auth = auth,
                                  !.customerId = customerId ], 400))
       ELSE SetReq(s, [ Idle EXCEPT !.kind = "scrape", !.pc = "scrape",
                          !.auth = auth, !.customerId = customerId, !.botId = botId,
                          !.contentType = "website", !.url = url ])
  /\ UNCHANGED << documents, embeddings, bots, nextDocId, nextEmbId, retrieved, deletedDocs,
                  chat_sessions, outbox, customers_auth, now >>

\* scrapeWebpage(validUrl.href) of the single-page branch: the page's text, or a throw
ScrapeSinglePage(s, content) ==
  LET r == req[s] IN
  /\ r.kind = "scrape"
  /\ r.pc = "scrape"
  /\ \/ SetReq(s, [ r EXCEPT !.pc = "insert_document", !.content = content ])
     \/ SetReq(s, Respond(r, 500))
  /\ UNCHANGED << documents, embeddings, bots, nextDocId, nextEmbId, retrieved, deletedDocs,
                  chat_sessions, outbox, customers_auth, now >>

\* The response has been sent and the handler has returned.
Finish(s) ==
  /\ req[s].pc = "done"
  /\ SetReq(s, Idle)
  /\ UNCHANGED << documents, embeddings, bots, nextDocId, nextEmbId, retrieved, deletedDocs,
                  chat_sessions, outbox, customers_auth, now >>


(***************************************************************************)
(* Content routes: list, delete, bulk delete.                              *)
(***************************************************************************)
\* GET /api/content/:customerId
ListDocuments(s, auth, customerId) ==
  /\ req[s].kind = "idle"
  /\ \/ LET rows == { d \in documents : d.customer_id = customerId }
        IN SetReq(s, Respond([ Idle EXCEPT !.kind = "list", !.auth = auth,
                                 !.seen = { d.customer_id : d \in rows } ], 200))
     \/ SetReq(s, Respond([ Idle EXCEPT !.kind = "list", !.auth = auth ], 500))
  /\ UNCHANGED << documents, embeddings, bots, nextDocId, nextEmbId, retrieved, deletedDocs,
                  chat_sessions, outbox, customers_auth, now >>

\* DELETE /api/content/:documentId: the ownership checks
DeleteDocument(s, auth, customerId, documentId) ==
  /\ req[s].kind = "idle"
  /\ LET r == [ Idle EXCEPT !.kind = "delete", !.auth = auth, !.customerId = customerId ]
         docCheck == { d \in documents : d.id = documentId /\ d.customer_id = customerId }
     IN IF customerId # auth THEN SetReq(s, Respond(r, 403))
        ELSE \/ IF docCheck = {} THEN SetReq(s, Respond(r, 404))
                ELSE SetReq(s, [ r EXCEPT !.pc = "delete_embeddings", !.ids = {documentId},
                                          !.snap = ChunkIdsOf({documentId}) ])
             \/ SetReq(s, Respond(r, 500))
  /\ UNCHANGED << documents, embeddings, bots, nextDocId, nextEmbId, retrieved, deletedDocs,
                  chat_sessions, outbox, customers_auth, now >>

\* DELETE FROM embeddings WHERE document_id = $1
DeleteDocumentEmbeddings(s) ==
  LET r == req[s] IN
  /\ r.kind = "delete"
  /\ r.pc = "delete_embeddings"
  /\ \/ /\ DeleteFromEmbeddings(r.ids)
        /\ SetReq(s, [ r EXCEPT !.pc = "delete_documents" ])
     \/ /\ SetReq(s, Respond(r, 500))
        /\ UNCHANGED embeddings
  /\ UNCHANGED << documents, bots, nextDocId, nextEmbId, retrieved, deletedDocs,
                  chat_sessions, outbox, customers_auth, now >>

\* DELETE FROM documents WHERE id = $1, then the success response
DeleteDocumentRow(s) ==
  LET r == req[s] IN
  /\ r.kind = "delete"
  /\ r.pc = "delete_documents"
  /\ \/ /\ DeleteFromDocuments(r.ids)
        /\ SetReq(s, Respond(r, 200))
        /\ deletedDocs' = deletedDocs \cup r.ids
     \/ /\ SetReq(s, Respond(r, 500))
        /\ UNCHANGED << documents, embeddings, deletedDocs >>
  /\ UNCHANGED << bots, nextDocId, nextEmbId, retrieved, chat_sessions, outbox, customers_auth, now >>

\* POST /api/content/delete-bulk: the ownership checks
DeleteBulk(s, auth, customerId, documentIds) ==
  /\ req[s].kind = "idle"
  /\ LET r == [ Idle EXCEPT !.kind = "bulk", !.auth = auth, !.customerId = customerId ]
         docCheck == { d \in documents : d.id \in documentIds /\ d.customer_id = customerId }
         validIds == { d.id : d \in docCheck }
     IN IF customerId # auth THEN SetReq(s, Respond(r, 403))
        ELSE IF documentIds = {} THEN SetReq(s, Respond(r, 400))
        ELSE \/ IF docCheck = {} THEN SetReq(s, Respond(r, 404))
                ELSE SetReq(s, [ r EXCEPT !.pc = "delete_embeddings", !.ids = validIds,
                                          !.snap = ChunkIdsOf(validIds) ])
             \/ SetReq(s, Respond(r, 500))
  /\ UNCHANGED << documents, embeddings, bots, nextDocId, nextEmbId, retrieved, deletedDocs,
                  chat_sessions, outbox, customers_auth, now >>

\* DELETE FROM embeddings WHERE document_id = ANY(validIds)
DeleteBulkEmbeddings(s) ==
  LET r == req[s] IN
  /\ r.kind = "bulk"
  /\ r.pc = "delete_embeddings"
  /\ \/ /\ DeleteFromEmbeddings(r.ids)
        /\ SetReq(s, [ r EXCEPT !.pc = "delete_documents" ])
     \/ /\ SetReq(s, Respond(r, 500))
        /\ UNCHANGED embeddings
  /\ UNCHANGED << documents, bots, nextDocId, nextEmbId, retrieved, deletedDocs,
                  chat_sessions, outbox, customers_auth, now >>

\* DELETE FROM documents WHERE id = ANY(validIds), then the success response
DeleteBulkRows(s) ==
  LET r == req[s] IN
  /\ r.kind = "bulk"
  /\ r.pc = "delete_documents"
  /\ \/ /\ DeleteFromDocuments(r.ids)
        /\ SetReq(s, Respond(r, 200))
        /\ deletedDocs' = deletedDocs \cup r.ids
     \/ /\ SetReq(s, Respond(r, 500))
        /\ UNCHANGED << documents, embeddings, deletedDocs >>
  /\ UNCHANGED << bots, nextDocId, nextEmbId, retrieved, chat_sessions, outbox, customers_auth, now >>


(***************************************************************************)
(* Content routes: retrain.                                                *)
(***************************************************************************)
RECURSIVE RowsById(_)
RowsById(rows) ==
  IF rows = {} THEN <<>>
  ELSE LET first == CHOOSE d \in rows : \A x \in rows : d.id <= x.id
       IN << first >> \o RowsById(rows \ {first})

\* POST /api/content/retrain: the checks, the selection and the response
Retrain(s, auth, customerId, documentIds) ==
  /\ req[s].kind = "idle"
  /\ LET r == [ Idle EXCEPT !.kind = "retrain", !.auth = auth, !.customerId = customerId ]
         docsResult == { d \in documents : d.id \in documentIds /\ d.customer_id = customerId }
         websiteDocs == { d \in docsResult :
                            d.content_type = "website" /\ d.source_url # NoUrl }
     IN IF customerId # auth THEN SetReq(s, Respond(r, 403))
        ELSE IF documentIds = {} THEN SetReq(s, Respond(r, 400))
        ELSE \/ IF websiteDocs = {} THEN SetReq(s, Respond(r, 400))
                ELSE SetReq(s, [ r EXCEPT !.pc = "retrain_scrape", !.status = 200,
                                          !.todo = RowsById(websiteDocs),
                                          !.total = Cardinality(websiteDocs) ])
             \/ SetReq(s, Respond(r, 500))
  /\ UNCHANGED << documents, embeddings, bots, nextDocId, nextEmbId, retrieved, deletedDocs,
                  chat_sessions, outbox, customers_auth, now >>

\* scrapeWebpage(doc.source_url): the page's text now, or a throw
RetrainScrape(s, content) ==
  LET r == req[s] IN
  /\ r.kind = "retrain"
  /\ r.pc = "retrain_scrape"
  /\ \/ SetReq(s, [ r EXCEPT !.pc = "retrain_delete_embeddings", !.content = content ])
     \/ SetReq(s, RetrainCatch(r))
  /\ UNCHANGED << documents, embeddings, bots, nextDocId, nextEmbId, retrieved, deletedDocs,
                  chat_sessions, outbox, customers_auth, now >>

\* DELETE FROM embeddings WHERE document_id = doc.id
RetrainDeleteEmbeddings(s) ==
  LET r == req[s] doc == Head(r.todo) IN
  /\ r.kind = "retrain"
  /\ r.pc = "retrain_delete_embeddings"
  /\ \/ /\ DeleteFromEmbeddings({doc.id})
        /\ SetReq(s, [ r EXCEPT !.pc = "retrain_delete_document" ])
     \/ /\ SetReq(s, RetrainCatch(r))
        /\ UNCHANGED embeddings
  /\ UNCHANGED << documents, bots, nextDocId, nextEmbId, retrieved, deletedDocs,
                  chat_sessions, outbox, customers_auth, now >>

\* The old row is kept and storeDocument is called next to it.
RetrainKeepDocument(s) ==
  LET r == req[s] doc == Head(r.todo) IN
  /\ r.kind = "retrain"
  /\ r.pc = "retrain_delete_document"
  /\ SetReq(s, [ r EXCEPT !.pc = "insert_document", !.botId = doc.bot_id,
                          !.contentType = "website", !.url = doc.source_url ])
  /\ UNCHANGED << documents, embeddings, bots, nextDocId, nextEmbId, retrieved, deletedDocs,
                  chat_sessions, outbox, customers_auth, now >>

\* DELETE FROM documents WHERE id = doc.id, then the call of storeDocument
RetrainDeleteDocument(s) ==
  LET r == req[s] doc == Head(r.todo) IN
  /\ r.kind = "retrain"
  /\ r.pc = "retrain_delete_document"
  /\ \/ /\ DeleteFromDocuments({doc.id})
        /\ SetReq(s, [ r EXCEPT !.pc = "insert_document", !.botId = doc.bot_id,
                                !.contentType = "website", !.url = doc.source_url ])
     \/ /\ SetReq(s, RetrainCatch(r))
        /\ UNCHANGED << documents, embeddings >>
  /\ UNCHANGED << bots, nextDocId, nextEmbId, retrieved, deletedDocs,
                  chat_sessions, outbox, customers_auth, now >>

\* await new Promise(resolve => setTimeout(resolve, 500)): the timer fires and
\* the loop takes its next document
RetrainDelay(s) ==
  LET r == req[s] IN
  /\ r.kind = "retrain"
  /\ r.pc = "retrain_delay"
  /\ SetReq(s, RetrainNext(r))
  /\ UNCHANGED << documents, embeddings, bots, nextDocId, nextEmbId, retrieved, deletedDocs,
                  chat_sessions, outbox, customers_auth, now >>

(***************************************************************************)
(* Bot routes: delete.                                                     *)
(***************************************************************************)
\* DELETE /api/bots/:botId: the ownership checks
DeleteBot(s, auth, customerId, botId) ==
  /\ req[s].kind = "idle"
  /\ LET r == [ Idle EXCEPT !.kind = "botdel", !.auth = auth, !.customerId = customerId,
                            !.botId = botId ]
         botCheck == { b \in bots : b.id = botId /\ b.customer_id = customerId }
     IN IF customerId # auth THEN SetReq(s, Respond(r, 403))
        ELSE \/ IF botCheck = {} THEN SetReq(s, Respond(r, 404))
                ELSE SetReq(s, [ r EXCEPT !.pc = "bot_count" ])
             \/ SetReq(s, Respond(r, 500))
  /\ UNCHANGED << documents, embeddings, bots, nextDocId, nextEmbId, retrieved, deletedDocs,
                  chat_sessions, outbox, customers_auth, now >>

\* SELECT COUNT(*) FROM bots WHERE customer_id = $1, and the only-bot check
DeleteBotCount(s) ==
  LET r == req[s] IN
  /\ r.kind = "botdel"
  /\ r.pc = "bot_count"
  /\ \/ IF Cardinality({ b \in bots : b.customer_id = r.customerId }) <= 1
          THEN SetReq(s, Respond(r, 400))
          ELSE SetReq(s, [ r EXCEPT !.pc = "bot_delete_embeddings" ])
     \/ SetReq(s, Respond(r, 500))
  /\ UNCHANGED << documents, embeddings, bots, nextDocId, nextEmbId, retrieved, deletedDocs,
                  chat_sessions, outbox, customers_auth, now >>

\* DELETE FROM messages / leads WHERE bot_id = $1 (tables outside the model),
\* then DELETE FROM embeddings WHERE bot_id = $1
DeleteBotEmbeddings(s) ==
  LET r == req[s] IN
  /\ r.kind = "botdel"
  /\ r.pc = "bot_delete_embeddings"
  /\ \/ /\ embeddings' = { e \in embeddings : e.bot_id # r.botId }
        /\ SetReq(s, [ r EXCEPT !.pc = "bot_delete_documents" ])
     \/ /\ SetReq(s, Respond(r, 500))
        /\ UNCHANGED embeddings
  /\ UNCHANGED << documents, bots, nextDocId, nextEmbId, retrieved, deletedDocs,
                  chat_sessions, outbox, customers_auth, now >>

\* DELETE FROM documents WHERE bot_id = $1
DeleteBotDocuments(s) ==
  LET r == req[s]
      ids == { d.id : d \in { x \in documents : x.bot_id = r.botId } } IN
  /\ r.kind = "botdel"
  /\ r.pc = "bot_delete_documents"
  /\ \/ /\ DeleteFromDocuments(ids)
        /\ SetReq(s, [ r EXCEPT !.pc = "bot_delete_row", !.ids = ids ])
     \/ /\ SetReq(s, Respond(r, 500))
        /\ UNCHANGED << documents, embeddings >>
  /\ UNCHANGED << bots, nextDocId, nextEmbId, retrieved, deletedDocs,
                  chat_sessions, outbox, customers_auth, now >>

\* DELETE FROM bots WHERE id = $1, then the success response
DeleteBotRow(s) ==
  LET r == req[s] IN
  /\ r.kind = "botdel"
  /\ r.pc = "bot_delete_row"
  /\ \/ /\ bots' = { b \in bots : b.id # r.botId }
        /\ SetReq(s, Respond(r, 200))
        /\ deletedDocs' = deletedDocs \cup r.ids
     \/ /\ SetReq(s, Respond(r, 500))
        /\ UNCHANGED << bots, deletedDocs >>
  /\ UNCHANGED << documents, embeddings, nextDocId, nextEmbId, retrieved,
                  chat_sessions, outbox, customers_auth, now >>


(***************************************************************************)
(* Retriever: retrieveContext.                                             *)
(***************************************************************************)
TOP_K == 2

Queries == { <<"a">>, <<"b">> }

Dot(u, v) == u[1] * v[1] + u[2] * v[2]

\* Cosine distance of u to q is at most that of v to q (components are
\* naturals, vectors are non-zero): cos(u,q) >= cos(v,q), cross-multiplied.
NotFarther(u, v, q) ==
  Dot(u, q) * Dot(u, q) * Dot(v, v) >= Dot(v, q) * Dot(v, q) * Dot(u, u)

\* The search sees the chunks of every tenant.
InAnyScope(e, customerId, botId) == e.embedding # NoVector

\* WHERE customer_id = tenantId (AND bot_id = agentId) AND embedding IS NOT NULL
InScope(e, customerId, botId) ==
  /\ e.customer_id = customerId
  /\ botId # NULL => e.bot_id = botId
  /\ e.embedding # NoVector

\* ORDER BY embedding <=> query LIMIT topK: every answer the search may give
NearestRows(rows, q, k) ==
  LET n == IF Cardinality(rows) < k THEN Cardinality(rows) ELSE k
  IN { res \in [ 1..n -> rows ] :
         /\ \A i, j \in 1..n : i < j =>
              /\ res[i] # res[j]
              /\ NotFarther(res[i].embedding, res[j].embedding, q)
         /\ \A e \in rows : (\A i \in 1..n : res[i] # e) =>
              \A i \in 1..n : NotFarther(res[i].embedding, e.embedding, q) }

\* The rows a sequential scan reads: all of them.
SeqScan(rows, q) == rows

\* The list of the ivfflat index a vector belongs to, the one whose centroid
\* is nearest by cosine distance: two lists here, with centroids along
\* <<2, 1>> and <<1, 2>>.
ListOf(v) == IF v[1] >= v[2] THEN "first" ELSE "second"

\* The rows a scan of the ivfflat index reads: those of the list it probes
\* (ivfflat.probes is 1 unless set), the list of the query vector.
IvfflatScan(rows, q) == { e \in rows : ListOf(e.embedding) = ListOf(q) }

\* The query is embedded; the planner answers ORDER BY embedding <=> query
\* LIMIT topK by a sequential scan or by the index, the WHERE clause filtering
\* the rows read.  A failed embedding of the query is a retrieval failure.
retrieveContext(customerId, botId, queryText) ==
  LET embedded == { e \in embeddings : e.embedding # NoVector }
      q == Embed(NormalizeChunkText(queryText)) IN
  \/ \E read \in { SeqScan(embedded, q), IvfflatScan(embedded, q) } :
       \E rows \in NearestRows({ e \in read : InScope(e, customerId, botId) },
                                q, TOP_K) :
         retrieved' = [ customerId |-> customerId, botId |-> botId,
                        query |-> queryText, rows |-> rows,
                        error |-> FALSE, n |-> 1 - retrieved.n ]
  \/ retrieved' = [ customerId |-> customerId, botId |-> botId,
                    query |-> queryText, rows |-> <<>>,
                    error |-> TRUE, n |-> 1 - retrieved.n ]

RetrieveContext(customerId, botId, queryText) ==
  /\ retrieveContext(customerId, botId, queryText)
  /\ UNCHANGED << documents, embeddings, bots, nextDocId, nextEmbId, req, deletedDocs,
                  chat_sessions, outbox, customers_auth, now >>

(***************************************************************************)
(* Admin routes: backfill of missing vectors.                              *)
(***************************************************************************)
\* const BATCH_SIZE = 100, scaled
BATCH_SIZE == 2

\* if (errors > 10), scaled
ERROR_LIMIT == 2

\* The largest value of the errors counter that is told apart: a rate limit
\* met with the counter at this value leaves it there.  It lies above
\* ERROR_LIMIT, so that the test errors > 10 reads the same as in the code.
MaxBatchFailures == 3

\* errors++ of the rate-limit branch
CountError(n) == IF n < MaxBatchFailures THEN n + 1 ELSE n

\* openai.embeddings.create({input}): one vector per input, in input order
EmbeddingsCreate(input) == [ i \in 1..Len(input) |-> Embed(input[i]) ]

\* The i-th vector goes to the row after the i-th row of the batch.
ShiftedRow(rows, i) == rows[(i % Len(rows)) + 1]

\* batch.rows[i], the row that receives response.data[i]
BatchRow(rows, i) == rows[i]

\* The batch is taken from the newest rows: ORDER BY id DESC.
SelectNewest(n) ==
  LET rows == RowsById({ e \in embeddings : e.embedding = NoVector })
      k == IF Len(rows) < n THEN Len(rows) ELSE n
  IN [ j \in 1..k |-> [ id |-> rows[Len(rows) + 1 - j].id,
                        chunk_text |-> rows[Len(rows) + 1 - j].chunk_text ] ]

\* SELECT id, chunk_text FROM embeddings WHERE embedding IS NULL ORDER BY id ASC LIMIT n
SelectMissing(n) ==
  LET rows == RowsById({ e \in embeddings : e.embedding = NoVector })
      k == IF Len(rows) < n THEN Len(rows) ELSE n
  IN [ j \in 1..k |-> [ id |-> rows[j].id, chunk_text |-> rows[j].chunk_text ] ]

\* The report of a run that went through its loop: res.json({success, processed, total, errors})
BackfillReport(r, success) ==
  [ Respond(r, 200) EXCEPT !.success = success, !.processed = r.processed,
                           !.total = r.total, !.errors = r.errors,
                           !.streak = r.streak ]

\* catch (batchError) of a failure that is no rate limit: errors++, then the
\* abort once errors > 10, else the delay before the next batch
BatchError(r) ==
  LET e == [ r EXCEPT !.errors = r.errors + 1, !.streak = r.streak + 1,
                      !.batch = <<>>, !.response = <<>>, !.i = 0 ]
  IN IF e.errors > ERROR_LIMIT THEN BackfillReport(e, FALSE)
     ELSE [ e EXCEPT !.pc = "backfill_delay" ]

\* The handler without the return on total === 0: it enters the loop.
BackfillWithoutEarlyReturn(s, apiKey) ==
  /\ req[s].kind = "idle"
  /\ LET r == [ Idle EXCEPT !.kind = "backfill" ]
         total == Cardinality({ e \in embeddings : e.embedding = NoVector })
     IN \/ IF ~apiKey THEN SetReq(s, Respond(r, 400))
           ELSE SetReq(s, [ r EXCEPT !.pc = "backfill_select", !.total = total ])
        \/ SetReq(s, Respond(r, 500))
  /\ UNCHANGED << documents, embeddings, bots, nextDocId, nextEmbId, retrieved, deletedDocs,
                  chat_sessions, outbox, customers_auth, now >>

\* GET /api/admin/backfill-embeddings: the key check and the count of missing vectors
Backfill(s, apiKey) ==
  /\ req[s].kind = "idle"
  /\ LET r == [ Idle EXCEPT !.kind = "backfill" ]
         total == Cardinality({ e \in embeddings : e.embedding = NoVector })
     IN \/ IF ~apiKey THEN SetReq(s, Respond(r, 400))
           ELSE IF total = 0
             THEN SetReq(s, [ Respond(r, 200) EXCEPT !.success = TRUE ])
             ELSE SetReq(s, [ r EXCEPT !.pc = "backfill_select", !.total = total ])
        \/ SetReq(s, Respond(r, 500))
  /\ UNCHANGED << documents, embeddings, bots, nextDocId, nextEmbId, retrieved, deletedDocs,
                  chat_sessions, outbox, customers_auth, now >>

\* The head of the loop: the next batch of rows without a vector, or the exit
BackfillSelect(s) ==
  LET r == req[s] IN
  /\ r.kind = "backfill"
  /\ r.pc = "backfill_select"
  /\ \/ IF SelectMissing(BATCH_SIZE) = <<>>
          THEN SetReq(s, [ r EXCEPT !.pc = "backfill_index", !.batch = <<>> ])
          ELSE SetReq(s, [ r EXCEPT !.pc = "backfill_embed",
                                    !.batch = SelectMissing(BATCH_SIZE) ])
     \/ SetReq(s, Respond(r, 500))
  /\ UNCHANGED << documents, embeddings, bots, nextDocId, nextEmbId, retrieved, deletedDocs,
                  chat_sessions, outbox, customers_auth, now >>

\* texts = rows.map(normalise); openai.embeddings.create: the vectors, a rate
\* limit (status 429: errors++, the 60 s wait, continue; the rows of the batch
\* stay in the record until the next select) or another error
BackfillEmbed(s) ==
  LET r == req[s]
      texts == [ j \in 1..Len(r.batch) |-> NormalizeChunkText(r.batch[j].chunk_text) ] IN
  /\ r.kind = "backfill"
  /\ r.pc = "backfill_embed"
  /\ \/ SetReq(s, [ r EXCEPT !.pc = "backfill_write", !.i = 1,
                             !.response = EmbeddingsCreate(texts) ])
     \/ SetReq(s, [ r EXCEPT !.pc = "backfill_cooldown",
                             !.errors = CountError(r.errors) ])
     \/ SetReq(s, BatchError(r))
  /\ UNCHANGED << documents, embeddings, bots, nextDocId, nextEmbId, retrieved, deletedDocs,
                  chat_sessions, outbox, customers_auth, now >>

\* The UPDATE without its WHERE clause: every row gets the vector.
BackfillWriteEveryRow(s) ==
  LET r == req[s] IN
  /\ r.kind = "backfill"
  /\ r.pc = "backfill_write"
  /\ r.i <= Len(r.batch)
  /\ \/ /\ embeddings' = { [ e EXCEPT !.embedding = r.response[r.i] ] : e \in embeddings }
        /\ SetReq(s, [ r EXCEPT !.i = r.i + 1 ])
     \/ /\ SetReq(s, BatchError(r))
        /\ UNCHANGED embeddings
  /\ UNCHANGED << documents, bots, nextDocId, nextEmbId, retrieved, deletedDocs,
                  chat_sessions, outbox, customers_auth, now >>

\* UPDATE embeddings SET embedding = response.data[i] WHERE id = batch.rows[i].id
BackfillWrite(s) ==
  LET r == req[s] IN
  /\ r.kind = "backfill"
  /\ r.pc = "backfill_write"
  /\ r.i <= Len(r.batch)
  /\ \/ /\ embeddings' = { IF e.id = BatchRow(r.batch, r.i).id
                             THEN [ e EXCEPT !.embedding = r.response[r.i] ]
                             ELSE e : e \in embeddings }
        /\ SetReq(s, [ r EXCEPT !.i = r.i + 1 ])
     \/ /\ SetReq(s, BatchError(r))
        /\ UNCHANGED embeddings
  /\ UNCHANGED << documents, bots, nextDocId, nextEmbId, retrieved, deletedDocs,
                  chat_sessions, outbox, customers_auth, now >>

\* The write loop is over: processed += batch.rows.length
BackfillBatchDone(s) ==
  LET r == req[s] IN
  /\ r.kind = "backfill"
  /\ r.pc = "backfill_write"
  /\ r.i > Len(r.batch)
  /\ SetReq(s, [ r EXCEPT !.pc = "backfill_delay", !.processed = r.processed + Len(r.batch),
                          !.streak = 0, !.batch = <<>>, !.response = <<>>, !.i = 0 ])
  /\ UNCHANGED << documents, embeddings, bots, nextDocId, nextEmbId, retrieved, deletedDocs,
                  chat_sessions, outbox, customers_auth, now >>

\* The 60 s wait after a rate limit is over: continue
BackfillCooldown(s) ==
  /\ req[s].kind = "backfill"
  /\ req[s].pc = "backfill_cooldown"
  /\ SetReq(s, [ req[s] EXCEPT !.pc = "backfill_select" ])
  /\ UNCHANGED << documents, embeddings, bots, nextDocId, nextEmbId, retrieved, deletedDocs,
                  chat_sessions, outbox, customers_auth, now >>

\* The 200 ms delay between batches is over
BackfillDelay(s) ==
  /\ req[s].kind = "backfill"
  /\ req[s].pc = "backfill_delay"
  /\ SetReq(s, [ req[s] EXCEPT !.pc = "backfill_select" ])
  /\ UNCHANGED << documents, embeddings, bots, nextDocId, nextEmbId, retrieved, deletedDocs,
                  chat_sessions, outbox, customers_auth, now >>

\* CREATE INDEX (its failure is caught and logged), then the final report
BackfillIndex(s) ==
  /\ req[s].kind = "backfill"
  /\ req[s].pc = "backfill_index"
  /\ SetReq(s, BackfillReport(req[s], TRUE))
  /\ UNCHANGED << documents, embeddings, bots, nextDocId, nextEmbId, retrieved, deletedDocs,
                  chat_sessions, outbox, customers_auth, now >>

(***************************************************************************)
(* Website Crawler: crawlWebsite(seedUrl, maxPages, onPage), called by     *)
(* the full-site branch of POST /api/content/scrape-website.               *)
(***************************************************************************)
\* The most links read from one page.
MaxLinks == 2

\* The largest page cap a crawl is given (the route passes 100).
MaxCrawlCap == 3

LinkSets == { l \in SUBSET RawUrls : Cardinality(l) <= MaxLinks }
SeedUrls == { u \in SiteUrls : u.path = 1 /\ ~u.frag }
CrawlContents == { <<>>, <<"a", "b">> }

\* The server answers two URLs with the same page when origin and path agree.
SamePage(u, v) == u.host = v.host /\ u.path = v.path

\* The visited set is keyed by the URL as written.
RawKey(u) == u

\* Normalized URL: scheme+host+path, trailing slash and fragment stripped
Normalize(u) == [ u EXCEPT !.slash = FALSE, !.frag = FALSE ]

SameOrigin(u, seed) == u.host = seed.host

\* A fixed order of the links of a page: by path, then plain before decorated.
UrlRank(u) == 4 * u.path + (IF u.slash THEN 2 ELSE 0) + (IF u.frag THEN 1 ELSE 0)

RECURSIVE InDocumentOrder(_)
InDocumentOrder(urls) ==
  IF urls = {} THEN <<>>
  ELSE LET first == CHOOSE u \in urls : \A v \in urls : UrlRank(u) <= UrlRank(v)
       IN << first >> \o InDocumentOrder(urls \ {first})

\* The loop runs while the queue is non-empty, whatever has been fetched.
GoesOnPastCap(r) == r.queue # <<>>

\* The run goes on while the queue is non-empty and the cap is not reached.
CrawlGoesOn(r) == r.queue # <<>> /\ r.fetched < r.maxPages

\* POST /api/content/scrape-website with fullSite: the validation, the
\* 'crawl started' answer, and the start of the detached crawl task
PostScrapeFullSite(s, auth, customerId, botId, url, maxPages) ==
  /\ req[s].kind = "idle"
  /\ IF customerId = NULL \/ url = NoUrl
       THEN SetReq(s, Respond([ Idle EXCEPT !.kind = "scrape", !.auth = auth,
                                  !.customerId = customerId ], 400))
       ELSE SetReq(s, [ Idle EXCEPT !.kind = "crawl", !.pc = "crawl_loop", !.status = 200,
                          !.auth = auth, !.customerId = customerId, !.botId = botId,
                          !.contentType = "website", !.maxPages = maxPages,
                          !.queue = << Normalize(url) >>,
                          !.visited = { Normalize(url) } ])
  /\ UNCHANGED << documents, embeddings, bots, nextDocId, nextEmbId, retrieved, deletedDocs,
                  chat_sessions, outbox, customers_auth, now >>

\* The head of the crawl loop: dequeue the next URL, or return
CrawlLoop(s) ==
  LET r == req[s] IN
  /\ r.kind = "crawl"
  /\ r.pc = "crawl_loop"
  /\ IF CrawlGoesOn(r)
       THEN SetReq(s, [ r EXCEPT !.pc = "crawl_fetch", !.url = Head(r.queue),
                                 !.queue = Tail(r.queue), !.links = {} ])
       ELSE SetReq(s, CrawlEnded(r))
  /\ UNCHANGED << documents, embeddings, bots, nextDocId, nextEmbId, retrieved, deletedDocs,
                  chat_sessions, outbox, customers_auth, now >>

\* Fetch the page and extract its text: the page goes to onPage, which calls
\* storeDocument; a failure of the fetch or the extraction is logged and skipped.
CrawlFetch(s, content) ==
  LET r == req[s]
      f == [ r EXCEPT !.fetched = r.fetched + 1, !.fetchLog = Append(r.fetchLog, r.url) ] IN
  /\ r.kind = "crawl"
  /\ r.pc = "crawl_fetch"
  /\ \/ SetReq(s, [ f EXCEPT !.pc = "insert_document", !.content = content,
                             !.calls = Append(r.calls, r.url) ])
     \/ SetReq(s, [ f EXCEPT !.pc = "crawl_loop", !.url = NoUrl,
                             !.failed = r.failed \cup {r.url} ])
  /\ UNCHANGED << documents, embeddings, bots, nextDocId, nextEmbId, retrieved, deletedDocs,
                  chat_sessions, outbox, customers_auth, now >>

\* Extract the links of the page (any links the page may hold) and enqueue the
\* same-origin ones that are neither visited nor queued.
CrawlEnqueueLinks(s, links) ==
  LET r == req[s]
      found == { Normalize(u) : u \in { l \in links : SameOrigin(l, r.url) } }
      fresh == found \ r.visited IN
  /\ r.kind = "crawl"
  /\ r.pc = "crawl_links"
  /\ SetReq(s, [ r EXCEPT !.pc = "crawl_loop", !.url = NoUrl, !.links = links,
                          !.queue = r.queue \o InDocumentOrder(fresh),
                          !.visited = r.visited \cup fresh ])
  /\ UNCHANGED << documents, embeddings, bots, nextDocId, nextEmbId, retrieved, deletedDocs,
                  chat_sessions, outbox, customers_auth, now >>

(***************************************************************************)
(* The specification of the knowledge store.                               *)
(***************************************************************************)
DocIdChoices == 1..MaxDocs

\* The pages and texts of the store specification: an empty text and one of two chunks.
StoreContents == { <<>>, <<"b", "\n", "a">> }

\* Text uploads are tenant-wide, scraped pages belong to bot 1; an ingestion
\* request names the tenant it is authenticated as (SpecIngest lifts this).
Next ==
  \/ \E s \in StoreSlots, auth \in Customers, content \in StoreContents :
       PostText(s, auth, auth, NULL, content)
  \/ \E s \in StoreSlots, auth \in Customers, url \in Urls :
       PostScrapeWebsite(s, auth, auth, 1, url)
  \/ \E s \in StoreSlots, content \in StoreContents : ScrapeSinglePage(s, content)
  \/ \E s \in StoreSlots : StoreInsertDocument(s, TRUE) /\ nextDocId' <= MaxDocs + 1
  \/ \E s \in StoreSlots : StoreInsertChunk(s)
  \/ \E s \in StoreSlots : StoreDone(s)
  \/ \E s \in DeleteSlots, auth \in Customers, customerId \in Customers :
       ListDocuments(s, auth, customerId)
  \/ \E s \in DeleteSlots, auth \in Customers, customerId \in Customers,
        documentId \in DocIdChoices :
       DeleteDocument(s, auth, customerId, documentId)
  \/ \E s \in DeleteSlots : DeleteDocumentEmbeddings(s)
  \/ \E s \in DeleteSlots : DeleteDocumentRow(s)
  \/ \E s \in DeleteSlots, auth \in Customers, customerId \in Customers,
        documentIds \in SUBSET DocIdChoices :
       DeleteBulk(s, auth, customerId, documentIds)
  \/ \E s \in DeleteSlots : DeleteBulkEmbeddings(s)
  \/ \E s \in DeleteSlots : DeleteBulkRows(s)
  \/ \E s \in StoreSlots, auth \in Customers, customerId \in Customers,
        documentIds \in SUBSET DocIdChoices :
       Retrain(s, auth, customerId, documentIds)
  \/ \E s \in StoreSlots, content \in StoreContents : RetrainScrape(s, content)
  \/ \E s \in StoreSlots : RetrainDeleteEmbeddings(s)
  \/ \E s \in StoreSlots : RetrainDeleteDocument(s)
  \/ \E s \in StoreSlots : RetrainDelay(s)
  \/ \E s \in DeleteSlots, auth \in Customers, customerId \in Customers,
        botId \in { b.id : b \in InitialBots } :
       DeleteBot(s, auth, customerId, botId)
  \/ \E s \in DeleteSlots : DeleteBotCount(s)
  \/ \E s \in DeleteSlots : DeleteBotEmbeddings(s)
  \/ \E s \in DeleteSlots : DeleteBotDocuments(s)
  \/ \E s \in DeleteSlots : DeleteBotRow(s)
  \/ \E s \in Slots : Finish(s)

Spec == Init /\ [][Next]_vars


(***************************************************************************)
(* Ingestion alone: any authenticated tenant, any customerId in the body.  *)
(***************************************************************************)
BotChoices == {NULL, 1}

NextIngest ==
  \/ \E s \in StoreSlots, auth \in Customers, customerId \in Customers \cup {NULL},
        botId \in BotChoices, content \in Contents :
       PostText(s, auth, customerId, botId, content)
  \/ \E s \in StoreSlots, auth \in Customers, customerId \in Customers \cup {NULL},
        botId \in BotChoices, url \in Urls \cup {NoUrl} :
       PostScrapeWebsite(s, auth, customerId, botId, url)
  \/ \E s \in StoreSlots, content \in Contents : ScrapeSinglePage(s, content)
  \/ \E s \in StoreSlots, embedded \in BOOLEAN : StoreInsertDocument(s, embedded)
  \/ \E s \in StoreSlots : StoreInsertChunk(s)
  \/ \E s \in StoreSlots : StoreDone(s)
  \/ \E s \in StoreSlots : Finish(s)

SpecIngest == Init /\ [][NextIngest]_vars

(***************************************************************************)
(* One tenant's store: a storing request racing a deleting one.            *)
(***************************************************************************)
\* The page the scrapes of this specification read: a text of one chunk.
CascadeContents == { <<"a", "b">> }

NextCascade ==
  \/ \E s \in StoreSlots, botId \in BotChoices, url \in Urls :
       PostScrapeWebsite(s, 1, 1, botId, url)
  \/ \E s \in StoreSlots, content \in CascadeContents : ScrapeSinglePage(s, content)
  \/ \E s \in StoreSlots : StoreInsertDocument(s, TRUE) /\ nextDocId' <= MaxDocs + 1
  \/ \E s \in StoreSlots : StoreInsertChunk(s)
  \/ \E s \in StoreSlots : StoreDone(s)
  \/ \E s \in DeleteSlots, documentId \in DocIdChoices :
       DeleteDocument(s, 1, 1, documentId)
  \/ \E s \in DeleteSlots : DeleteDocumentEmbeddings(s)
  \/ \E s \in DeleteSlots : DeleteDocumentRow(s)
  \/ \E s \in DeleteSlots, documentIds \in SUBSET DocIdChoices :
       DeleteBulk(s, 1, 1, documentIds)
  \/ \E s \in DeleteSlots : DeleteBulkEmbeddings(s)
  \/ \E s \in DeleteSlots : DeleteBulkRows(s)
  \/ \E s \in StoreSlots, documentIds \in SUBSET DocIdChoices :
       Retrain(s, 1, 1, documentIds)
  \/ \E s \in StoreSlots, content \in CascadeContents : RetrainScrape(s, content)
  \/ \E s \in StoreSlots : RetrainDeleteEmbeddings(s)
  \/ \E s \in StoreSlots : RetrainDeleteDocument(s)
  \/ \E s \in StoreSlots : RetrainDelay(s)
  \/ \E s \in DeleteSlots : DeleteBot(s, 1, 1, 1)
  \/ \E s \in DeleteSlots : DeleteBotCount(s)
  \/ \E s \in DeleteSlots : DeleteBotEmbeddings(s)
  \/ \E s \in DeleteSlots : DeleteBotDocuments(s)
  \/ \E s \in DeleteSlots : DeleteBotRow(s)
  \/ \E s \in Slots : Finish(s)

SpecCascade == Init /\ [][NextCascade]_vars

(***************************************************************************)
(* The conversation notifier.                                              *)
(***************************************************************************)
\* LIMIT 10 of the notifier's SELECT, scaled.
NOTIFY_LIMIT == 1

\* A chat session joined with its bot: conversation_notifications stands for
\* the bot's flag with a non-empty notification_emails, idle for last_activity
\* being more than a minute old, messages for the session having messages,
\* notification_sent_at is FALSE for NULL.  deliverable is not a column: it
\* tells whether the mail provider accepts the transcript of this session.
ChatSessionSettings ==
  [ conversation_notifications : BOOLEAN, idle : BOOLEAN, messages : BOOLEAN,
    deliverable : BOOLEAN ]

\* The tables when the notifier starts: MaxSessions sessions, none notified.
InitNotifier ==
  /\ documents = {}
  /\ embeddings = {}
  /\ bots = InitialBots
  /\ nextDocId = 1
  /\ nextEmbId = 1
  /\ req = [ s \in Slots |-> Idle ]
  /\ retrieved = [ customerId |-> NULL, botId |-> NULL, query |-> <<>>, rows |-> <<>>,
                   error |-> FALSE, n |-> 0 ]
  /\ deletedDocs = {}
  /\ \E f \in [ SessionIds -> ChatSessionSettings ] :
       chat_sessions =
         { [ id |-> x, conversation_notifications |-> f[x].conversation_notifications,
             idle |-> f[x].idle, messages |-> f[x].messages,
             deliverable |-> f[x].deliverable, notification_sent_at |-> FALSE ] :
           x \in SessionIds }
  /\ outbox = NoMail
  /\ customers_auth = InitialAuth
  /\ now = 0

\* SELECT DISTINCT ON (cs.id) ... WHERE b.conversation_notifications = true AND
\* b.notification_emails IS NOT NULL AND b.notification_emails != '' AND
\* cs.notification_sent_at IS NULL AND cs.last_activity < NOW() - INTERVAL
\* '1 minute' ORDER BY cs.id LIMIT n
SelectSessions(n) ==
  LET rows == RowsById({ cs \in chat_sessions :
                           /\ cs.conversation_notifications
                           /\ cs.idle
                           /\ ~cs.notification_sent_at })
  IN SubSeq(rows, 1, IF Len(rows) < n THEN Len(rows) ELSE n)

\* checkAndSendNotifications has returned.
NotifierDone == [ Idle EXCEPT !.kind = "notifier", !.pc = "done" ]

\* sendConversationTranscript has returned: the next session of the for loop
NotifierNext(r) ==
  IF Len(r.todo) > 1
    THEN [ r EXCEPT !.pc = "notify_messages", !.todo = Tail(r.todo) ]
    ELSE NotifierDone

\* The callback of setInterval(..., 30000) or of setTimeout(..., 5000) runs:
\* a call of checkAndSendNotifications begins, whether or not an earlier call
\* has returned.
NotifierTick(s) ==
  /\ req[s].kind = "idle"
  /\ SetReq(s, [ Idle EXCEPT !.kind = "notifier", !.pc = "notify_select" ])
  /\ UNCHANGED << documents, embeddings, bots, nextDocId, nextEmbId, retrieved, deletedDocs,
                  chat_sessions, outbox, customers_auth, now >>

\* The SELECT of the sessions to notify; when it throws, the outer catch logs.
NotifierSelect(s, ok) ==
  LET r == req[s] IN
  /\ r.kind = "notifier"
  /\ r.pc = "notify_select"
  /\ IF ok /\ SelectSessions(NOTIFY_LIMIT) # <<>>
       THEN SetReq(s, [ r EXCEPT !.pc = "notify_messages",
                                 !.todo = SelectSessions(NOTIFY_LIMIT) ])
       ELSE SetReq(s, NotifierDone)
  /\ UNCHANGED << documents, embeddings, bots, nextDocId, nextEmbId, retrieved, deletedDocs,
                  chat_sessions, outbox, customers_auth, now >>

\* SELECT role, content, created_at FROM messages WHERE session_id = $1: a
\* session without messages is marked at once; a throw goes to the catch of
\* sendConversationTranscript, which logs.
NotifierMessages(s, ok) ==
  LET r == req[s] IN
  /\ r.kind = "notifier"
  /\ r.pc = "notify_messages"
  /\ IF ~ok THEN SetReq(s, NotifierNext(r))
     ELSE IF ~Head(r.todo).messages THEN SetReq(s, [ r EXCEPT !.pc = "notify_mark" ])
     ELSE SetReq(s, [ r EXCEPT !.pc = "notify_send" ])
  /\ UNCHANGED << documents, embeddings, bots, nextDocId, nextEmbId, retrieved, deletedDocs,
                  chat_sessions, outbox, customers_auth, now >>

\* await resend.emails.send({...}): the provider takes the transcript, or the
\* send fails.  A failed send either throws (the catch logs and the session
\* stays unmarked) or resolves to an error object, which the code does not read.
NotifierSend(s, throws) ==
  LET r == req[s] session == Head(r.todo) IN
  /\ r.kind = "notifier"
  /\ r.pc = "notify_send"
  /\ IF session.deliverable
       THEN /\ outbox[session.id] < MaxSends
            /\ outbox' = [ outbox EXCEPT ![session.id] = @ + 1 ]
            /\ SetReq(s, [ r EXCEPT !.pc = "notify_mark" ])
       ELSE /\ UNCHANGED outbox
            /\ IF throws THEN SetReq(s, NotifierNext(r))
               ELSE SetReq(s, [ r EXCEPT !.pc = "notify_mark" ])
  /\ UNCHANGED << documents, embeddings, bots, nextDocId, nextEmbId, retrieved, deletedDocs,
                  chat_sessions, customers_auth, now >>

\* UPDATE chat_sessions SET notification_sent_at = NOW() WHERE id = $1
NotifierMark(s, ok) ==
  LET r == req[s] session == Head(r.todo) IN
  /\ r.kind = "notifier"
  /\ r.pc = "notify_mark"
  /\ chat_sessions' = IF ok
       THEN { IF cs.id = session.id THEN [ cs EXCEPT !.notification_sent_at = TRUE ]
                                    ELSE cs : cs \in chat_sessions }
       ELSE chat_sessions
  /\ SetReq(s, NotifierNext(r))
  /\ UNCHANGED << documents, embeddings, bots, nextDocId, nextEmbId, retrieved, deletedDocs,
                  outbox, customers_auth, now >>

\* The notifier with every failure: any query can throw.
NextNotifier ==
  \/ \E s \in Slots : NotifierTick(s)
  \/ \E s \in Slots, ok \in BOOLEAN : NotifierSelect(s, ok)
  \/ \E s \in Slots, ok \in BOOLEAN : NotifierMessages(s, ok)
  \/ \E s \in Slots, throws \in BOOLEAN : NotifierSend(s, throws)
  \/ \E s \in Slots, ok \in BOOLEAN : NotifierMark(s, ok)
  \/ \E s \in Slots : Finish(s)

SpecNotifier == InitNotifier /\ [][NextNotifier]_vars

\* One step of a call of checkAndSendNotifications whose queries succeed; only
\* sends fail, for the sessions whose transcript the provider does not take.
NotifierRun(s) ==
  \/ NotifierTick(s)
  \/ NotifierSelect(s, TRUE)
  \/ NotifierMessages(s, TRUE)
  \/ \E throws \in BOOLEAN : NotifierSend(s, throws)
  \/ NotifierMark(s, TRUE)
  \/ Finish(s)

NextNotifierFair == \E s \in Slots : NotifierRun(s)

\* The interval timer fires every 30 s and the event loop runs the continuation
\* of every settled await: a call that can take a step takes it.
SpecNotifierFair ==
  InitNotifier /\ [][NextNotifierFair]_vars /\ \A s \in Slots : WF_vars(NotifierRun(s))

(***************************************************************************)
(* Login and the account lock.                                             *)
(***************************************************************************)
\* newFailedAttempts >= 5 locks the account for 15 minutes: both scaled, the
\* lock period being LOCK_TIME ticks of the clock.
LOCK_AFTER == 2
LOCK_TIME == 2

\* The clock stops at MaxTime.
MaxTime == 3

\* bcrypt.compare(password, user.password_hash)
BcryptCompare(password, hash) == Hash(password) = hash

\* UPDATE customers_auth SET failed_login_attempts = $1, locked_until = $2
\* WHERE id = $3
UpdateAuth(id, attempts, lockedUntil) ==
  customers_auth' =
    { IF u.id = id
        THEN [ u EXCEPT !.failed_login_attempts = attempts, !.locked_until = lockedUntil,
                        !.lock_set = IF lockedUntil # NULL THEN lockedUntil ELSE @ ]
        ELSE u : u \in customers_auth }

\* POST /login: the body check, the SELECT of the account by email and the
\* lock check on the row it returned
Login(s, email, password) ==
  /\ req[s].kind = "idle"
  /\ LET r == [ Idle EXCEPT !.kind = "login", !.email = email, !.password = password ]
         rows == { u \in customers_auth : u.email = email }
     IN IF email = "" \/ password = "" THEN SetReq(s, Respond(r, 400))
        ELSE \/ IF rows = {} THEN SetReq(s, Respond(r, 401))
                ELSE LET user == CHOOSE u \in rows : TRUE
                     IN IF user.locked_until # NULL /\ user.locked_until > now
                          THEN SetReq(s, Respond(r, 423))
                          ELSE SetReq(s, [ r EXCEPT !.pc = "login_compare", !.user = user ])
             \/ SetReq(s, Respond(r, 500))
  /\ UNCHANGED << documents, embeddings, bots, nextDocId, nextEmbId, retrieved, deletedDocs,
                  chat_sessions, outbox, customers_auth, now >>

\* await bcrypt.compare(password, user.password_hash)
LoginCompare(s) ==
  LET r == req[s] IN
  /\ r.kind = "login"
  /\ r.pc = "login_compare"
  /\ IF BcryptCompare(r.password, r.user.password_hash)
       THEN SetReq(s, [ r EXCEPT !.pc = "login_reset" ])
       ELSE SetReq(s, [ r EXCEPT !.pc = "login_failed" ])
  /\ UNCHANGED << documents, embeddings, bots, nextDocId, nextEmbId, retrieved, deletedDocs,
                  chat_sessions, outbox, customers_auth, now >>

\* The wrong password: newFailedAttempts = user.failed_login_attempts + 1 is
\* written with the lock (now + 15 minutes) or with NULL, then 423 or 401
LoginFailed(s) ==
  LET r == req[s]
      newFailedAttempts == r.user.failed_login_attempts + 1
      lockAccount == newFailedAttempts >= LOCK_AFTER
  IN /\ r.kind = "login"
     /\ r.pc = "login_failed"
     /\ \/ /\ UpdateAuth(r.user.id, newFailedAttempts,
                         IF lockAccount THEN now + LOCK_TIME ELSE NULL)
           /\ SetReq(s, Respond(r, IF lockAccount THEN 423 ELSE 401))
        \/ /\ SetReq(s, Respond(r, 500))
           /\ UNCHANGED customers_auth
     /\ UNCHANGED << documents, embeddings, bots, nextDocId, nextEmbId, retrieved,
                     deletedDocs, chat_sessions, outbox, now >>

\* The right password: the counter and the lock are reset, the session is
\* created and the handler answers 200
LoginReset(s) ==
  LET r == req[s] IN
  /\ r.kind = "login"
  /\ r.pc = "login_reset"
  /\ \/ /\ UpdateAuth(r.user.id, 0, NULL)
        /\ SetReq(s, [ Respond(r, 200) EXCEPT !.session = r.user.customer_id ])
     \/ /\ SetReq(s, Respond(r, 500))
        /\ UNCHANGED customers_auth
  /\ UNCHANGED << documents, embeddings, bots, nextDocId, nextEmbId, retrieved,
                  deletedDocs, chat_sessions, outbox, now >>

\* Time passes.
Tick ==
  /\ now < MaxTime
  /\ now' = now + 1
  /\ UNCHANGED << documents, embeddings, bots, nextDocId, nextEmbId, req, retrieved,
                  deletedDocs, chat_sessions, outbox, customers_auth >>

Emails == { "a", "b" }
Passwords == { "", "p", "x" }

\* Two clients log in to the account at once.
NextLogin ==
  \/ \E s \in Slots, email \in Emails, password \in Passwords : Login(s, email, password)
  \/ \E s \in Slots : LoginCompare(s)
  \/ \E s \in Slots : LoginFailed(s)
  \/ \E s \in Slots : LoginReset(s)
  \/ \E s \in Slots : Finish(s)
  \/ Tick

SpecLogin == Init /\ [][NextLogin]_vars

(***************************************************************************)
(* Bot deletes of two clients at once.                                     *)
(***************************************************************************)
BotIds == { b.id : b \in InitialBots }

\* One step of DELETE /api/bots/:botId
DeleteBotStep(s) ==
  \/ \E auth \in Customers, customerId \in Customers, botId \in BotIds :
       DeleteBot(s, auth, customerId, botId)
  \/ DeleteBotCount(s)
  \/ DeleteBotEmbeddings(s)
  \/ DeleteBotDocuments(s)
  \/ DeleteBotRow(s)
  \/ Finish(s)

NextBots == \E s \in Slots : DeleteBotStep(s)

SpecBots == Init /\ [][NextBots]_vars

(***************************************************************************)
(* Retrain runs over pages that are already stored.                        *)
(***************************************************************************)
\* The text the stored pages had when they were scraped, and what
\* scrapeWebpage returns for them now.
StoredText == <<"a", "b">>
RetrainContents == { <<>>, <<"b", "\n", "a">> }

StoredPage(i) == [ host |-> "site", path |-> i, slash |-> FALSE, frag |-> FALSE ]

\* The Knowledge Store after POST /scrape-website has stored MaxDocs pages of
\* tenant 1 for bot 1, one document each, and every request has returned.
InitRetrain ==
  LET texts == ChunkSplitter(StoredText)
      vecs  == EmbeddingClient(texts)
      n     == Len(texts)
  IN /\ documents = { [ id |-> d, customer_id |-> 1, bot_id |-> 1,
                        content_type |-> "website", source_url |-> StoredPage(d) ] :
                        d \in 1..MaxDocs }
     /\ embeddings = { [ id |-> (p[1] - 1) * n + p[2], customer_id |-> 1, bot_id |-> 1,
                         document_id |-> p[1], chunk_text |-> texts[p[2]],
                         embedding |-> vecs[p[2]] ] : p \in (1..MaxDocs) \X (1..n) }
     /\ bots = InitialBots
     /\ nextDocId = MaxDocs + 1
     /\ nextEmbId = MaxDocs * n + 1
     /\ req = [ s \in Slots |-> Idle ]
     /\ retrieved = [ customerId |-> NULL, botId |-> NULL, query |-> <<>>, rows |-> <<>>,
                      error |-> FALSE, n |-> 0 ]
     /\ deletedDocs = {}
     /\ chat_sessions = {}
     /\ outbox = NoMail
     /\ customers_auth = InitialAuth
     /\ now = 0

\* The ids a client can name: those of the stored pages and of the documents
\* that retrain runs have stored since.
RetrainIdChoices == 1..(MaxDocs + MaxRestores)

\* One step of the retrain handler or of its background loop.
RetrainStep(s) ==
  \/ \E documentIds \in SUBSET RetrainIdChoices : Retrain(s, 1, 1, documentIds)
  \/ \E content \in RetrainContents : RetrainScrape(s, content)
  \/ RetrainDeleteEmbeddings(s)
  \/ RetrainDeleteDocument(s)
  \/ StoreInsertDocument(s, TRUE)
  \/ StoreInsertChunk(s)
  \/ StoreDone(s)
  \/ RetrainDelay(s)
  \/ Finish(s)

\* A single retrain run at a time.
NextRetrainAlone == \E s \in StoreSlots : RetrainStep(s)

SpecRetrainAlone == InitRetrain /\ [][NextRetrainAlone]_vars

\* Two clients: their retrain runs overlap.
NextRetrain == \E s \in Slots : RetrainStep(s)

SpecRetrain == InitRetrain /\ [][NextRetrain]_vars


(***************************************************************************)
(* Retrieval over a store that two tenants fill.                           *)
(***************************************************************************)
\* Tenant 1 stores for its bot 1 or tenant-wide, tenant 2 tenant-wide.
RetrieveOwners == { <<1, 1>>, <<1, NULL>>, <<2, NULL>> }

\* The text the tenants of the retrieval specification upload: two chunks.
RetrieveUploads == { <<"b", "\n", "a">> }

NextRetrieve ==
  \/ \E s \in StoreSlots, o \in RetrieveOwners, content \in RetrieveUploads :
       PostText(s, o[1], o[1], o[2], content)
  \/ \E s \in StoreSlots, embedded \in BOOLEAN : StoreInsertDocument(s, embedded)
  \/ \E s \in StoreSlots : StoreInsertChunk(s)
  \/ \E s \in StoreSlots : StoreDone(s)
  \/ \E s \in StoreSlots : Finish(s)
  \/ \E customerId \in Customers, botId \in BotChoices, queryText \in Queries :
       RetrieveContext(customerId, botId, queryText)

SpecRetrieve == Init /\ [][NextRetrieve]_vars

\* C1: every row retrieveContext returns for a tenant is a chunk of that
\* tenant, whatever the other tenant has stored and whatever the query.
C1_RetrievedRowsAreOfTheTenant ==
  \A i \in 1..Len(retrieved.rows) : retrieved.rows[i].customer_id = retrieved.customerId

\* A search has returned rows while another tenant holds a chunk at least as
\* near to the query as the best returned one.
C1_Witness ==
  /\ retrieved.rows # <<>>
  /\ \E e \in embeddings :
       /\ e.customer_id # retrieved.customerId
       /\ e.embedding # NoVector
       /\ NotFarther(e.embedding, retrieved.rows[1].embedding,
                     Embed(NormalizeChunkText(retrieved.query)))

(***************************************************************************)
(* Backfill beside a request that stores or deletes.                       *)
(***************************************************************************)
BackfillSlots == {2}

\* The batch failures met by one run beside the uploads and deletes.
FailuresPerRun == 1

NextBackfill ==
  \/ \E s \in StoreSlots, content \in RetrieveUploads : PostText(s, 1, 1, NULL, content)
  \/ \E s \in StoreSlots, embedded \in BOOLEAN : StoreInsertDocument(s, embedded)
  \/ \E s \in StoreSlots : StoreInsertChunk(s)
  \/ \E s \in StoreSlots : StoreDone(s)
  \/ \E s \in StoreSlots, documentId \in DocIdChoices : DeleteDocument(s, 1, 1, documentId)
  \/ \E s \in StoreSlots : DeleteDocumentEmbeddings(s)
  \/ \E s \in StoreSlots : DeleteDocumentRow(s)
  \/ \E s \in BackfillSlots, apiKey \in BOOLEAN : Backfill(s, apiKey)
  \/ \E s \in BackfillSlots : BackfillSelect(s)
  \/ \E s \in BackfillSlots : BackfillEmbed(s) /\ req'[s].errors <= FailuresPerRun
  \/ \E s \in BackfillSlots : BackfillWrite(s) /\ req'[s].errors <= FailuresPerRun
  \/ \E s \in BackfillSlots : BackfillBatchDone(s)
  \/ \E s \in BackfillSlots : BackfillCooldown(s)
  \/ \E s \in BackfillSlots : BackfillDelay(s)
  \/ \E s \in BackfillSlots : BackfillIndex(s)
  \/ \E s \in Slots : Finish(s)

SpecBackfill == Init /\ [][NextBackfill]_vars

\* One step of a backfill run that has started: each await of the handler (a
\* query, the provider's answer, a timer) settles, and its continuation runs.
BackfillStep(s) ==
  \/ BackfillSelect(s)
  \/ BackfillEmbed(s)
  \/ BackfillWrite(s)
  \/ BackfillBatchDone(s)
  \/ BackfillCooldown(s)
  \/ BackfillDelay(s)
  \/ BackfillIndex(s)

\* One backfill run next to the uploads of one tenant.  The event loop runs the
\* continuation of every settled await, hence the weak fairness of BackfillStep.
NextBackfillFair ==
  \/ \E s \in StoreSlots, content \in RetrieveUploads : PostText(s, 1, 1, NULL, content)
  \/ \E s \in StoreSlots : StoreInsertDocument(s, FALSE)
  \/ \E s \in StoreSlots : StoreInsertChunk(s)
  \/ \E s \in StoreSlots : StoreDone(s)
  \/ \E s \in BackfillSlots : Backfill(s, TRUE)
  \/ \E s \in BackfillSlots : BackfillStep(s)

SpecBackfillFair ==
  Init /\ [][NextBackfillFair]_vars /\ \A s \in BackfillSlots : WF_vars(BackfillStep(s))

\* C7: every chunk that has a vector has the vector of its own text.
C7_VectorIsOfOwnText ==
  \A e \in embeddings :
    e.embedding # NoVector => e.embedding = Embed(NormalizeChunkText(e.chunk_text))

\* The backfill has written the vectors of a batch of two chunks whose texts,
\* and so whose vectors, differ.
C7_Witness ==
  \E s \in BackfillSlots :
    /\ req[s].pc = "backfill_write"
    /\ req[s].i > Len(req[s].batch)
    /\ Len(req[s].batch) = 2
    /\ req[s].response[1] # req[s].response[2]
    /\ \A j \in 1..2 : \E e \in embeddings :
         e.id = req[s].batch[j].id /\ e.embedding = req[s].response[j]

(***************************************************************************)
(* One full-site crawl over any site of NumPages pages.                    *)
(***************************************************************************)
UploadContents == { <<>>, <<"a", "b">> }
UploadLists ==
  { <<>> } \cup UNION { [ 1..n -> UploadedFiles ] : n \in 1..MaxFiles }

\* Multi-file uploads of one tenant beside single deletes.
NextUpload ==
  \/ \E s \in StoreSlots, customerId \in {NULL, 1}, files \in UploadLists :
       PostUpload(s, 1, customerId, NULL, files)
  \/ \E s \in StoreSlots, content \in UploadContents : UploadExtract(s, content)
  \/ \E s \in StoreSlots : StoreInsertDocument(s, TRUE)
  \/ \E s \in StoreSlots : StoreInsertChunk(s)
  \/ \E s \in StoreSlots : StoreDone(s)
  \/ \E s \in DeleteSlots, documentId \in DocIdChoices :
       DeleteDocument(s, 1, 1, documentId)
  \/ \E s \in DeleteSlots : DeleteDocumentEmbeddings(s)
  \/ \E s \in DeleteSlots : DeleteDocumentRow(s)
  \/ \E s \in Slots : Finish(s)

SpecUpload == Init /\ [][NextUpload]_vars

(***************************************************************************)
(* The Chunk Splitter applied to every text up to a length.                *)
(***************************************************************************)
MaxTextLen == 4

Characters == { "a", "b", " ", "\n" }
Texts == UNION { [ 1..n -> Characters ] : n \in 0..MaxTextLen }

InitSplit ==
  /\ documents = {}
  /\ embeddings = {}
  /\ bots = InitialBots
  /\ nextDocId = 1
  /\ nextEmbId = 1
  /\ \E text \in Texts :
       req = [ s \in Slots |->
                 IF s \in StoreSlots
                   THEN [ Idle EXCEPT !.kind = "split", !.pc = "split", !.content = text ]
                   ELSE Idle ]
  /\ retrieved = [ customerId |-> NULL, botId |-> NULL, query |-> <<>>, rows |-> <<>>,
                   error |-> FALSE, n |-> 0 ]
  /\ deletedDocs = {}
  /\ chat_sessions = {}
  /\ outbox = NoMail
  /\ customers_auth = InitialAuth
  /\ now = 0

\* split(text): the ordered chunks of the text
SplitText(s) ==
  /\ req[s].kind = "split"
  /\ req[s].pc = "split"
  /\ SetReq(s, [ req[s] EXCEPT !.pc = "done", !.chunks = ChunkSplitter(req[s].content) ])
  /\ UNCHANGED << documents, embeddings, bots, nextDocId, nextEmbId, retrieved, deletedDocs,
                  chat_sessions, outbox, customers_auth, now >>

NextSplit == \E s \in StoreSlots : SplitText(s)

SpecSplit == InitSplit /\ [][NextSplit]_vars

CrawlStep(s, linkSets) ==
  \/ CrawlLoop(s)
  \/ \E content \in CrawlContents : CrawlFetch(s, content)
  \/ StoreInsertDocument(s, TRUE)
  \/ StoreInsertChunk(s)
  \/ StoreDone(s)
  \/ \E links \in linkSets : CrawlEnqueueLinks(s, links)

PostCrawl ==
  \E s \in StoreSlots, customerId \in {NULL, 1}, url \in SeedUrls,
     maxPages \in 1..MaxCrawlCap :
    PostScrapeFullSite(s, 1, customerId, NULL, url, maxPages)

NextCrawl ==
  \/ PostCrawl
  \/ \E s \in StoreSlots : CrawlStep(s, LinkSets)

SpecCrawl == Init /\ [][NextCrawl]_vars

\* The link sets in which every link is written in its normalized form.
PlainLinkSets == { l \in LinkSets : \A u \in l : ~u.slash /\ ~u.frag }

NextCrawlPlain ==
  \/ PostCrawl
  \/ \E s \in StoreSlots : CrawlStep(s, PlainLinkSets)

\* The event loop resumes the crawl task whenever the call it awaits has settled.
SpecCrawlFair ==
  /\ Init
  /\ [][NextCrawlPlain]_vars
  /\ \A s \in StoreSlots : WF_vars(CrawlStep(s, PlainLinkSets))

Crawls == { s \in StoreSlots : req[s].kind = "crawl" }

\* C8: a crawl fetches at most maxPages pages, fetches no page twice and
\* hands no page to onPage twice, however the links to a page are written.
C8_AtMostCapAndNoDuplicate ==
  \A s \in Crawls :
    LET r == req[s] IN
    /\ Len(r.fetchLog) <= r.maxPages
    /\ \A i, j \in 1..Len(r.fetchLog) : i < j => ~SamePage(r.fetchLog[i], r.fetchLog[j])
    /\ \A i, j \in 1..Len(r.calls) : i < j => ~SamePage(r.calls[i], r.calls[j])

\* The crawl has read the links of a page: two of them are different
\* spellings of one page, which it had fetched before.
C8_Witness ==
  \E s \in Crawls :
    /\ req[s].pc = "crawl_loop"
    /\ \E u, v \in req[s].links :
         /\ u # v
         /\ SamePage(u, v)
         /\ \E j \in 1..Len(req[s].fetchLog) : SamePage(u, req[s].fetchLog[j])

\* C9: a crawl that runs ends; it never fetches beyond the cap, and when it
\* has ended the queue is empty or maxPages pages have been fetched.
C9_SafetyPart ==
  \A s \in Crawls :
    /\ req[s].fetched <= req[s].maxPages
    /\ req[s].pc = "done" => (req[s].queue = <<>> \/ req[s].fetched >= req[s].maxPages)

C9_CrawlTerminatesAtQueueEndOrCap ==
  /\ [] C9_SafetyPart
  /\ \A s \in StoreSlots : (req[s].kind = "crawl") ~> (req[s].pc = "done")

\* A crawl has ended at its cap with URLs still queued.
C9_Witness ==
  \E s \in Crawls :
    /\ req[s].pc = "done"
    /\ req[s].queue # <<>>
    /\ req[s].fetched = req[s].maxPages

IngestionKinds == {"text", "scrape"}
DeleteKinds == {"delete", "bulk"}

\* C2: every document, and every chunk, that an ingestion request has created
\* carries the tenant id the request is authenticated as.
C2_IngestionCarriesAuthenticatedTenant ==
  \A s \in Slots :
    (req[s].kind \in IngestionKinds /\ req[s].docId # NULL) =>
      /\ \A d \in documents : d.id = req[s].docId => d.customer_id = req[s].auth
      /\ \A e \in ChunksOf(req[s].docId) : e.customer_id = req[s].auth

\* The rows a step of a request can touch: what it removes and what it adds.
TouchedDocuments == (documents \ documents') \cup (documents' \ documents)
TouchedChunks == (embeddings \ embeddings') \cup (embeddings' \ embeddings)

\* C3: a list shows, and a step of a single delete, a bulk delete or a retrain
\* removes or replaces, only rows of the tenant the request is authenticated as.
C3_ScopedStep ==
  \A s \in Slots :
    req'[s] # req[s] =>
      /\ req'[s].kind = "list" => req'[s].seen \subseteq {req'[s].auth}
      /\ req[s].kind \in DeleteKinds \cup {"retrain"} =>
           /\ \A d \in TouchedDocuments : d.customer_id = req[s].auth
           /\ \A e \in TouchedChunks : e.customer_id = req[s].auth

C3_ReadsAndWritesAreTenantScoped == [][C3_ScopedStep]_vars

(***************************************************************************)
(* Referential integrity of the Knowledge Store.                           *)
(***************************************************************************)
\* C4: once a single delete, a bulk delete or a bot delete has answered with
\* success, no chunk refers to a document it deleted.
C4_NoChunkOfDeletedDocument ==
  \A d \in deletedDocs : ChunksOf(d) = {}

\* A delete has succeeded while storeDocument still holds chunks to insert for
\* the deleted document.
C4_Witness ==
  \E s \in Slots :
    /\ req[s].pc = "insert_chunks"
    /\ req[s].pending # <<>>
    /\ req[s].docId \in deletedDocs

\* C5: in every state, between the statements of the deleting handlers and
\* after a failed statement too, every chunk refers to an existing document.
C5_NoOrphanedChunk ==
  \A e \in embeddings : e.document_id # NULL /\ e.document_id \in DocIds

\* A delete stands between its two statements while a chunk of a targeted
\* document, inserted since the first statement, is in the store.
C5_Witness ==
  \E s \in Slots :
    /\ req[s].pc \in {"delete_documents", "retrain_delete_document"}
    /\ req[s].kind \in DeleteKinds \cup {"retrain"}
    /\ \E e \in embeddings :
         \/ e.document_id \in req[s].ids
         \/ req[s].todo # <<>> /\ e.document_id = Head(req[s].todo).id

\* C6: a single delete or bulk delete that has failed has left every targeted
\* document that still exists with all the chunks it had when the delete began.
C6_DeleteIsAllOrNothing ==
  \A s \in Slots :
    (req[s].kind \in DeleteKinds /\ req[s].pc = "done" /\ req[s].status = 500) =>
      \A d \in req[s].ids :
        d \in DocIds => req[s].snap \subseteq { e.id : e \in embeddings }

(***************************************************************************)
(* Backfill: termination, rate limits, the abort and the run with nothing  *)
(* to do.                                                                  *)
(***************************************************************************)
\* C11: every backfill run that has started ends with a report, whatever mix
\* of rate limits and other errors its batches meet.
C11_BackfillTerminates ==
  \A s \in BackfillSlots : (req[s].kind = "backfill") ~> (req[s].pc = "done")

\* The rows of a batch that are still in the table without a vector.
StillMissing(batch) ==
  SelectSeq(batch, LAMBDA row : \E e \in embeddings : e.id = row.id /\ e.embedding = NoVector)

\* The rows of a batch whose id is among those of another batch.
Among(batch, other) ==
  SelectSeq(batch, LAMBDA row : \E j \in 1..Len(other) : other[j].id = row.id)

\* The select of slot s that follows a rate limit and its cool-down.
SelectAfterRateLimit(s) ==
  /\ req[s].pc = "backfill_select"
  /\ req[s].batch # <<>>
  /\ req'[s] # req[s]

C12_AmendedStep ==
  \A s \in BackfillSlots :
    /\ (req[s].pc = "backfill_embed" /\ req'[s].pc = "backfill_cooldown")
         => req'[s].batch = req[s].batch
    /\ (req[s].pc = "backfill_cooldown" /\ req'[s] # req[s])
         => req'[s].pc = "backfill_select" /\ req'[s].batch = req[s].batch
    /\ (SelectAfterRateLimit(s) /\ req'[s].pc # "done")
         => /\ Among(req'[s].batch, req[s].batch) = StillMissing(req[s].batch)
            /\ req'[s].pc = (IF req'[s].batch = <<>> THEN "backfill_index"
                                                    ELSE "backfill_embed")

C12_OriginalStep ==
  \A s \in BackfillSlots :
    (SelectAfterRateLimit(s) /\ req'[s].pc # "done") => req'[s].batch = req[s].batch

AbortedForErrors(s) ==
  /\ req[s].kind = "backfill"
  /\ req[s].pc = "done"
  /\ req[s].status = 200
  /\ req[s].total > 0
  /\ ~req[s].success

\* C13: a run is aborted for errors only when more than ERROR_LIMIT batches
\* in a row, none of them a rate limit and with no successful batch between
\* them, have failed.
C13_AbortOnlyAfterConsecutiveOtherErrors ==
  \A s \in BackfillSlots : AbortedForErrors(s) => req[s].streak > ERROR_LIMIT

\* No chunk lacks a vector.
NothingMissing == \A e \in embeddings : e.embedding # NoVector

C14_Step ==
  \A s \in BackfillSlots :
    (req[s].kind = "idle" /\ req'[s].kind = "backfill" /\ NothingMissing)
      => /\ req'[s].pc = "done"
         /\ embeddings' = embeddings
         /\ req'[s].status = 200
              => req'[s].success /\ req'[s].total = 0 /\ req'[s].processed = 0

\* C14: a backfill run started when no chunk lacks a vector ends in the step
\* that counted them, before any call of the provider and any write; its
\* report is the success report with total = 0.
C14_NothingMissingIsNoOp == [][C14_Step]_vars

C14_Witness ==
  \E s \in BackfillSlots :
    /\ req[s].kind = "backfill" /\ req[s].pc = "done"
    /\ req[s].status = 200 /\ req[s].success /\ req[s].total = 0
    /\ embeddings # {}
    /\ NothingMissing

(***************************************************************************)
(* Ingestion routes: validation, retrain, full-site crawl and file upload. *)
(***************************************************************************)
C15_Step ==
  \A s \in StoreSlots :
    (req[s].kind = "idle" /\ req'[s].kind \in IngestionKinds)
      => /\ req'[s].pc # "done"
              => /\ req'[s].customerId # NULL
                 /\ req'[s].kind = "text" => req'[s].content # <<>>
         /\ req'[s].pc = "done"
              => /\ req'[s].status = 400
                 /\ req'[s].docId = NULL
                 /\ documents' = documents
                 /\ embeddings' = embeddings

\* C15: an ingestion request goes past the route's validation only with a
\* tenant id and, for POST /text, a non-empty text; the request that does not
\* is answered 400 in that very step, which writes no document and no chunk.
C15_InvalidRequestRejectedBeforeAnyWrite == [][C15_Step]_vars

C15_Witness ==
  \E s \in StoreSlots :
    /\ req[s].kind = "text" /\ req[s].pc = "done" /\ req[s].status = 400
    /\ documents # {}
    /\ embeddings # {}

\* The positions of one iteration of the retrain loop, in the order the
\* iteration passes them.
RetrainStage(pc) ==
  CASE pc = "retrain_scrape" -> 1
    [] pc = "retrain_delete_embeddings" -> 2
    [] pc = "retrain_delete_document" -> 3
    [] pc = "insert_document" -> 4
    [] pc = "insert_chunks" -> 5
    [] pc = "retrain_delay" -> 6
    [] OTHER -> 0

\* The list a retrain run starts with: website documents of the tenant, each once.
C16_Start ==
  \A s \in StoreSlots :
    (req[s].kind = "idle" /\ req'[s].kind = "retrain" /\ req'[s].pc # "done")
      => /\ req'[s].pc = "retrain_scrape"
         /\ req'[s].status = 200
         /\ req'[s].todo # <<>>
         /\ \A i \in 1..Len(req'[s].todo) :
              /\ req'[s].todo[i] \in documents
              /\ req'[s].todo[i].customer_id = req'[s].auth
              /\ req'[s].todo[i].content_type = "website"
              /\ \A j \in 1..Len(req'[s].todo) :
                   i # j => req'[s].todo[i].id # req'[s].todo[j].id

C16_Step ==
  \A s \in StoreSlots :
    (req[s].kind = "retrain" /\ req[s].pc # "done" /\ req'[s] # req[s])
      => \/ /\ req'[s].todo = req[s].todo
            /\ RetrainStage(req'[s].pc) >= RetrainStage(req[s].pc)
            /\ RetrainStage(req'[s].pc) > 1
         \/ /\ Len(req[s].todo) > 1
            /\ req'[s].todo = Tail(req[s].todo)
            /\ req'[s].pc = "retrain_scrape"
         \/ /\ Len(req[s].todo) = 1
            /\ req'[s].pc = "done"
            /\ req'[s].status = 200

\* C16: a retrain run works on the head of its list until that document is
\* stored anew or one of its steps fails, then goes on with the rest of the
\* list, and it ends only after the last document: every selected document
\* is attempted once, in the order of the list, whatever fails.
C16_EveryDocumentAttemptedOnce == [][C16_Start /\ C16_Step]_vars

C16_Witness ==
  \E s \in StoreSlots :
    /\ req[s].kind = "retrain"
    /\ req[s].pc = "retrain_scrape"
    /\ Len(req[s].todo) = 1
    /\ \E d \in documents : d.id < Head(req[s].todo).id

C17_Step ==
  \A s \in StoreSlots :
    /\ (req[s].kind = "idle" /\ req'[s].kind = "crawl")
         => /\ req'[s].status = 200
            /\ req'[s].fetched = 0
            /\ req'[s].calls = <<>>
            /\ documents' = documents
            /\ embeddings' = embeddings
    /\ (req[s].kind = "crawl" /\ req'[s] # req[s])
         => \/ req'[s].kind = "crawl" /\ req'[s].status = req[s].status
            \/ req[s].pc = "done" /\ req'[s] = Idle

\* C17: the full-site request is answered with the success envelope in the
\* step that accepts it, before a page is fetched or stored, and no later
\* step of the crawl, whatever its outcome, answers again or alters the answer.
C17_CrawlAnsweredOnceBeforeAnyPage == [][C17_Step]_vars

C17_Witness ==
  \E s \in StoreSlots :
    /\ req[s].kind = "crawl" /\ req[s].pc = "done" /\ req[s].status = 200
    /\ req[s].failed # {}
    /\ Cardinality(documents) < Len(req[s].calls)
    /\ documents # {}

\* The entry of file k in the results of r says which file it is about and
\* either that it was stored, with the number of its chunks, or that it failed,
\* with the error.
C18_EntryOf(r, k) ==
  /\ r.results[k].filename = r.files[k].originalname
  /\ \/ /\ r.results[k].success
        /\ DOMAIN r.results[k] = { "filename", "success", "chunksStored" }
        /\ r.results[k].chunksStored \in Nat
     \/ /\ ~r.results[k].success
        /\ DOMAIN r.results[k] = { "filename", "success", "error" }

C19_Candidates ==
  { e \in embeddings : InScope(e, retrieved.customerId, retrieved.botId) }

C19_Nearest ==
  LET rows == retrieved.rows
      q == Embed(NormalizeChunkText(retrieved.query))
      n == Len(rows)
  IN /\ n <= TOP_K
     /\ \A i \in 1..n : rows[i] \in C19_Candidates
     /\ \A i, j \in 1..n : i < j =>
          /\ rows[i] # rows[j]
          /\ NotFarther(rows[i].embedding, rows[j].embedding, q)
     /\ n = (IF Cardinality(C19_Candidates) < TOP_K
               THEN Cardinality(C19_Candidates) ELSE TOP_K)
     /\ \A e \in C19_Candidates : (\A i \in 1..n : rows[i] # e) =>
          \A i \in 1..n : NotFarther(rows[i].embedding, e.embedding, q)

C19_Step ==
  (retrieved' # retrieved /\ ~retrieved'.error) => C19_Nearest'

RECURSIVE Reassemble(_)
Reassemble(chunks) ==
  IF chunks = <<>> THEN <<>>
  ELSE IF Len(chunks) = 1 THEN chunks[1]
  ELSE LET last == chunks[Len(chunks)]
       IN  Reassemble(SubSeq(chunks, 1, Len(chunks) - 1))
             \o SubSeq(last, CHUNK_OVERLAP + 1, Len(last))

WhitespaceOnly(text) == \A i \in 1..Len(text) : IsBlank(text[i])

C21_NextDocument(s) ==
  /\ req[s].kind = "retrain"
  /\ req[s].pc # "done"
  /\ req'[s].pc = "retrain_scrape"
  /\ req'[s].todo = Tail(req[s].todo)

\* C21: a retrain run works on one document at a time, and it starts the
\* re-scrape of the next document only when the pacing delay that follows the
\* previous document has elapsed, whether that document was stored anew or
\* one of its steps failed.
C21_PacingDelayBetweenDocuments ==
  [][\A s \in StoreSlots : C21_NextDocument(s) => req[s].pc = "retrain_delay"]_vars

\* storeDocument has returned to the retrain loop: the document at the head
\* of the list has been retrained.
C22_Retrained(s) ==
  /\ req[s].kind = "retrain"
  /\ req[s].pc = "insert_chunks"
  /\ req'[s].pc = "retrain_delay"

\* The old row and its chunks are gone; the new row has the tenant, the agent
\* and the source URL of the old one, and its chunks are the chunks of the
\* text that this run scraped, with their vectors.
C22_Replaced(s) ==
  LET r     == req[s]
      d     == Head(r.todo)
      texts == ChunkSplitter(r.content)
      new   == { e \in embeddings' : e.document_id = r.docId }
  IN /\ \A x \in documents' : x.id # d.id
     /\ \A e \in embeddings' : e.document_id # d.id
     /\ r.docId # d.id
     /\ \E n \in documents' :
          /\ n.id = r.docId
          /\ n.customer_id = d.customer_id
          /\ n.bot_id = d.bot_id
          /\ n.source_url = d.source_url
     /\ Cardinality(new) = Len(texts)
     /\ \A i \in 1..Len(texts) :
          \E e \in new : /\ e.chunk_text = texts[i]
                         /\ e.embedding = Embed(NormalizeChunkText(texts[i]))
                         /\ e.customer_id = d.customer_id
                         /\ e.bot_id = d.bot_id

\* A row that is there before and after a step is the same row.
C22_NoUpdateInPlace ==
  /\ \A x \in documents, y \in documents' : x.id = y.id => x = y
  /\ \A x \in embeddings, y \in embeddings' : x.id = y.id => x = y

\* C22: retraining replaces by delete-and-recreate.  When the retrain of
\* document d has succeeded, neither d's row nor a chunk that referred to it
\* exists, and a new document with d's tenant, agent and source URL exists
\* whose chunks are those of the freshly scraped text; no step of a retrain
\* run changes a document or chunk row in place.
C22_DeleteAndRecreate ==
  [][ /\ C22_NoUpdateInPlace
      /\ \A s \in StoreSlots : C22_Retrained(s) => C22_Replaced(s) ]_vars

\* A run has retrained a stored page: the page's new document holds a chunk
\* whose text the old version did not have.
C22_Witness ==
  \E s \in StoreSlots :
    /\ req[s].kind = "retrain"
    /\ req[s].pc = "retrain_delay"
    /\ req[s].docId \in DocIds
    /\ \E e \in ChunksOf(req[s].docId) :
         \A i \in 1..Len(ChunkSplitter(StoredText)) :
           e.chunk_text # ChunkSplitter(StoredText)[i]

\* The catch block of the retrain loop: a step of the document at the head of
\* the list has thrown, and the run leaves that document.
C24_Failed(s) ==
  /\ req[s].kind = "retrain"
  /\ RetrainStage(req[s].pc) \in 1..5
  /\ \/ req'[s].pc = "done"
     \/ req'[s].todo = Tail(req[s].todo)

\* C24: a retrain of a document that fails at its re-scrape, at a delete or
\* in storeDocument leaves the stored version in place: the row of the
\* document is still there, with chunks.
C24_FailedRetrainKeepsOldVersion ==
  [][\A s \in StoreSlots :
       C24_Failed(s) =>
         /\ Head(req[s].todo) \in documents'
         /\ \E e \in embeddings' : e.document_id = Head(req[s].todo).id]_vars

\* The documents stored for a page of bot 1.
C25_DocumentsOf(page) ==
  { d \in documents : d.source_url = StoredPage(page) /\ d.bot_id = 1 }

\* The background loop of a retrain run has ended and every document the run
\* selected was retrained.
C25_Finished(s) ==
  /\ req[s].kind = "retrain"
  /\ req[s].pc = "done"
  /\ req[s].status = 200
  /\ req[s].successCount = req[s].total

\* C25: when two retrain runs have both finished, each having retrained what
\* it selected, exactly one document exists for the source URL and agent of
\* every stored page, in whatever order the scrape, delete and store steps
\* of the two runs were taken (two runs that selected the same document
\* included).
C25_OneDocumentAfterConcurrentRetrains ==
  (\A s \in Slots : C25_Finished(s))
    => \A page \in 1..MaxDocs : Cardinality(C25_DocumentsOf(page)) = 1

(***************************************************************************)
(* The backfill: what a run changes and what it reports.                   *)
(***************************************************************************)
\* A step of the backfill handler in slot s.
C23_BackfillStepOf(s) ==
  /\ req'[s] # req[s]
  /\ \/ req[s].kind = "backfill" /\ req[s].pc # "done"
     \/ req[s].kind = "idle" /\ req'[s].kind = "backfill"

\* The rows of the batch the run holds.
C23_BatchIds(s) == { req[s].batch[j].id : j \in 1..Len(req[s].batch) }

\* Nothing but vectors of rows of the batch differs after the step.
C23_OnlyVectorsOfTheBatch(s) ==
  /\ documents' = documents
  /\ bots' = bots
  /\ nextDocId' = nextDocId
  /\ nextEmbId' = nextEmbId
  /\ Cardinality(embeddings') = Cardinality(embeddings)
  /\ \A e \in embeddings :
       \E f \in embeddings' :
         /\ f.id = e.id
         /\ f.chunk_text = e.chunk_text
         /\ f.document_id = e.document_id
         /\ f.customer_id = e.customer_id
         /\ f.bot_id = e.bot_id
         /\ f.embedding # e.embedding => e.id \in C23_BatchIds(s)

\* The batch a select returns holds only rows that have no vector.
C23_SelectedWithoutVector(s) ==
  (req[s].pc = "backfill_select" /\ req'[s].pc = "backfill_embed")
    => \A j \in 1..Len(req'[s].batch) :
         \E e \in embeddings :
           e.id = req'[s].batch[j].id /\ e.embedding = NoVector

\* C23: a backfill run creates and deletes no chunk and no document and
\* changes no chunk's text, document id or tenant; the only thing it writes
\* is the vector of rows of its current batch, and every row of a batch had
\* no vector when the batch was selected.
C23_BackfillWritesOnlyMissingVectors ==
  [][\A s \in BackfillSlots :
       C23_BackfillStepOf(s)
         => C23_OnlyVectorsOfTheBatch(s) /\ C23_SelectedWithoutVector(s)]_vars

\* The run has written the first vector of a batch while another chunk, not
\* of the batch, is stored without a vector.
C23_Witness ==
  \E s \in BackfillSlots :
    /\ req[s].pc = "backfill_write"
    /\ req[s].i = 2
    /\ \E e \in embeddings :
         e.id = req[s].batch[1].id /\ e.embedding = req[s].response[1]
    /\ \E e \in embeddings :
         e.id \notin C23_BatchIds(s) /\ e.embedding = NoVector

\* The chunks that have a vector.
C26_Embedded == { e \in embeddings : e.embedding # NoVector }

\* No chunk was inserted or deleted since the run counted the missing vectors.
\* Where chunks are stored without a vector and only by uploads, nothing is
\* deleted and a single backfill runs, the rows counted at the start are then
\* all the rows of the table.
C26_NothingInsertedOrDeleted(s) == Cardinality(embeddings) = req[s].total

\* C26: when a backfill run reports success and no chunk was inserted or
\* deleted during the run, the processed count it reports equals the total it
\* reports and equals the number of chunks that received a vector during the
\* run, whichever batches failed and wherever in the batch.
C26_ReportCountsWrittenVectors ==
  \A s \in BackfillSlots :
    ( /\ req[s].kind = "backfill"
      /\ req[s].pc = "done"
      /\ req[s].status = 200
      /\ req[s].success
      /\ C26_NothingInsertedOrDeleted(s) )
      => /\ req[s].processed = req[s].total
         /\ req[s].processed = Cardinality(C26_Embedded)

(***************************************************************************)
(* Bots.                                                                   *)
(***************************************************************************)
C29_BotsOf(customerId) == { b \in bots : b.customer_id = customerId }

\* C29: a customer who has a bot keeps at least one bot, whatever bot-delete
\* requests of that customer are made and however their statements interleave.
C29_CustomerKeepsABot ==
  \A c \in Customers :
    (\E b \in InitialBots : b.customer_id = c) => C29_BotsOf(c) # {}

(***************************************************************************)
(* The conversation notifier: at most once, and no starvation.             *)
(***************************************************************************)
\* C27: the transcript of a chat session is handed to the mail provider at
\* most once, however the calls of checkAndSendNotifications overlap and
\* whichever send or mark-as-notified update fails.
C27_TranscriptSentAtMostOnce ==
  \A x \in SessionIds : outbox[x] <= 1

\* The row of session x.
C28_Session(x) == CHOOSE cs \in chat_sessions : cs.id = x

\* Session x is eligible and the provider would take its transcript.
C28_Waiting(x) ==
  /\ C28_Session(x).conversation_notifications
  /\ C28_Session(x).idle
  /\ ~C28_Session(x).notification_sent_at
  /\ C28_Session(x).deliverable

\* C28: every eligible chat session whose own send would succeed is
\* eventually emailed or marked notified, however many other eligible
\* sessions keep failing to send.
C28_EligibleSessionIsEventuallyNotified ==
  \A x \in SessionIds :
    C28_Waiting(x) ~> (outbox[x] > 0 \/ C28_Session(x).notification_sent_at)

(***************************************************************************)
(* The account lock.                                                       *)
(***************************************************************************)
\* The handler in slot s reads the account: a login attempt is made.
C30_Attempt(s) == req[s].kind = "idle" /\ req'[s].kind = "login"

\* A failed login has locked the account of this email and the locked_until
\* it set has not passed.
C30_LockedOut(email) ==
  \E u \in customers_auth :
    u.email = email /\ u.lock_set # NULL /\ now < u.lock_set

\* The counter of an account goes back to 0 in this step.
C30_CounterReset ==
  \E u \in customers_auth, v \in customers_auth' :
    u.id = v.id /\ u.failed_login_attempts # 0 /\ v.failed_login_attempts = 0

\* C30: once a failed login has locked an account, every login attempt made
\* before the locked_until it set has passed (and whose body and lookup are
\* in order) is rejected with 423, with the right password too, without a
\* session and without a write to the account; and the counter goes back to 0
\* only in the step of a successful login.
C30_LockedAccountRejectsEveryAttempt ==
  [][ /\ \A s \in Slots :
           ( /\ C30_Attempt(s)
             /\ C30_LockedOut(req'[s].email)
             /\ req'[s].status \notin {400, 500} )
             => /\ req'[s].pc = "done"
                /\ req'[s].status = 423
                /\ req'[s].session = NULL
                /\ customers_auth' = customers_auth
      /\ C30_CounterReset
           => \E s \in Slots : req[s].pc = "login_reset" /\ req'[s].status = 200 ]_vars

====
